---------------------------- MODULE Spec2Model ----------------------------
(* State-machine model of the jira-dashboard backend: the user service     *)
(* (backend/services/userService.js), the session manager                  *)
(* (backend/middleware/sessionManager.js), the authentication router       *)
(* (backend/routes/auth.js) and the guarded ticket routes                  *)
(* (backend/routes/jira.js).                                               *)
(*                                                                         *)
(* Time is counted in minutes; every event happens at a whole number of   *)
(* clock steps, so the second-granular token expiry and the millisecond-   *)
(* granular timeouts fall on the same instants.  The global rate limiter   *)
(* (server.js:61-71, 100 requests per address and window) answers before   *)
(* any route does and changes nothing; it is left out.                     *)
EXTENDS Integers, Sequences, FiniteSets, TLC

\* ---------------------------------------------------------------- bounds
MaxClock == 20
MaxSessions == 1
MaxInFlight == 2
MaxAttempts == 6
MaxUsers == 3
MaxFragments == 2
MaxPad == 1

TickSteps == {5}

\* ------------------------------------------------------ program constants
\* sessionManager.js: this.sessionTimeout = 15 * 60 * 1000 (15 minutes)
sessionTimeout == 15
\* sessionManager.js: this.maxSessionTimeout = 60 * 60 * 1000 (60 minutes)
maxSessionTimeout == 60
\* userService.js handleFailedLogin: lock after 5 failed attempts ...
lockThreshold == 5
\* ... for 15 minutes
lockMinutes == 15
\* userService.js: lockedUntil: null
Null == -1
\* validation.js validateComment, authService.js addComment: at most 2000
\* characters
maxCommentLength == 2000

\* The three SessionManager objects the process constructs: server.js:29,
\* routes/auth.js (part_010:81) and routes/jira.js:24.
Insts == {"server", "auth", "jira"}

IPs == {"ip1", "ip2"}

VARIABLES
  clock,           \* wall clock (minutes)
  users,           \* UserService.users: user id -> user record
  activeSessions,  \* per SessionManager: session id -> session record
  jwtSecret,       \* per SessionManager: its signing secret
  nextSid,         \* number of session ids drawn so far (crypto.randomUUID)
  issued,          \* tokens handed to clients: session id -> token
  auth,            \* login requests suspended in bcrypt.compare, per slot
  lastReq,         \* what the step just taken answered and did
  validated,       \* history: sessions validated at least once
  terminated,      \* history: sessions terminateSession has removed
  termEvents,      \* history: SESSION_TERMINATED events per session id
  consecFail,      \* history: consecutive wrong-secret attempts per user
  lockDue,         \* history: lock-expiry set by the 5th consecutive failure
  auditLog,        \* AuditLogger: the entries the last audit call wrote
  phiReq,          \* the request as PHIDetector.middleware left it
  text,            \* a text given to sanitizeText, and what came of it
  comment,         \* a comment as typed, and what each check made of it
  pending          \* a guarded request between validateSession and its answer

\* The state of the session and user services, and of the compliance layer.
service == <<clock, users, activeSessions, jwtSecret, nextSid, issued, auth,
             lastReq, validated, terminated, termEvents, consecFail, lockDue>>
compliance == <<auditLog, phiReq, text, comment, pending>>

vars == <<clock, users, activeSessions, jwtSecret, nextSid, issued, auth,
          lastReq, validated, terminated, termEvents, consecFail, lockDue,
          auditLog, phiReq, text, comment, pending>>


\* ------------------------------------------------------------ user service
\* bcrypt.hash / bcrypt.compare: a one-way image of the clear text; compare
\* recomputes the image and tests it against the stored one.
hashPassword(password) == <<"bcrypt", password>>

bcryptCompare(password, stored) == stored = hashPassword(password)

\* Secrets a client may type.  The first is the default administrator's
\* (createDefaultAdmin: DEFAULT_ADMIN_PASSWORD || 'ChangeMe123!').
AdminSecret == "ChangeMe123!"
BobSecret == "Bobs-Pw-9!"
WrongSecret == "guess"
Secrets == {AdminSecret, BobSecret, WrongSecret}

\* createDefaultAdmin: the record stored on first start.
DefaultAdmin ==
  [username |-> "admin", email |-> "admin@localhost",
   password |-> hashPassword(AdminSecret), role |-> "admin",
   isActive |-> TRUE, mustChangePassword |-> TRUE,
   loginAttempts |-> 0, lockedUntil |-> Null, preferences |-> "default"]

\* createUser: the record stored for a new user.
NewUser(username, email, password, role) ==
  [username |-> username, email |-> email,
   password |-> hashPassword(password), role |-> role,
   isActive |-> TRUE, mustChangePassword |-> TRUE,
   loginAttempts |-> 0, lockedUntil |-> Null, preferences |-> "default"]

\* initializeUsers: the users file written by an earlier run is loaded; here
\* it holds the default administrator and one user the administrator created.
LoadedUsers ==
  (1 :> DefaultAdmin) @@
  (2 :> NewUser("bob", "bob@example.com", BobSecret, "user"))

SetMin(S) == CHOOSE x \in S : \A y \in S : x <= y

\* authenticateUser: Array.from(users.values()).find(u => u.username ===
\* username || u.email === username); 0 stands for undefined.  Map iteration
\* is insertion order, which is the order of the ids here.
findUser(us, name) ==
  LET hits == {id \in DOMAIN us :
                 us[id].username = name \/ us[id].email = name}
  IN  IF hits = {} THEN 0 ELSE SetMin(hits)

\* authenticateUser: user.lockedUntil && new Date() < new Date(lockedUntil)
isLocked(u, now) == u.lockedUntil # Null /\ now < u.lockedUntil

\* authenticateUser up to the await of bcrypt.compare: the answer given at
\* once, or "compare" when the secret goes to verification.
authPrecheck(us, name, now) ==
  LET id == findUser(us, name)
  IN  IF id = 0 THEN "Invalid credentials"
      ELSE IF isLocked(us[id], now) THEN "Account temporarily locked"
      ELSE IF ~us[id].isActive THEN "Account is disabled"
      ELSE "compare"

\* handleFailedLogin: count the failure, lock at the threshold.
handleFailedLogin(u, now) ==
  LET n == u.loginAttempts + 1
  IN  [u EXCEPT !.loginAttempts = n,
                !.lockedUntil = IF n >= lockThreshold
                                THEN now + lockMinutes ELSE @]

\* handleSuccessfulLogin: reset the counter and the lock.
handleSuccessfulLogin(u) ==
  [u EXCEPT !.loginAttempts = 0, !.lockedUntil = Null]

\* The record handed out whole, its password field included.
userInfoWhole(u) == u

\* getUserById / the snapshot authenticateUser returns: the record without
\* its password field.
userInfo(u) ==
  [username |-> u.username, email |-> u.email, role |-> u.role,
   isActive |-> u.isActive, mustChangePassword |-> u.mustChangePassword,
   loginAttempts |-> u.loginAttempts, lockedUntil |-> u.lockedUntil,
   preferences |-> u.preferences]

\* getAllUsers: the snapshot of every record, in the order of the ids.
getAllUsers(us) == [id \in 1 .. Cardinality(DOMAIN us) |-> userInfo(us[id])]


\* --------------------------------------------------------- session manager
\* What a request may carry as its token: nothing, bytes that are no token
\* of this server, or a token some login returned.
NoToken ==
  [sid |-> 0, userId |-> 0, email |-> "", exp |-> 0, key |-> "none"]
ForgedToken ==
  [sid |-> 0, userId |-> 0, email |-> "", exp |-> 0, key |-> "forged"]

\* createSession: jwt.sign({sessionId, userId, email, iat, exp: now +
\* sessionTimeout}, jwtSecret); the signature is the key it was made with.
signToken(sid, userId, email, now, secret) ==
  [sid |-> sid, userId |-> userId, email |-> email,
   exp |-> now + sessionTimeout, key |-> secret]

\* createSession: the session record stored under the new id.
newSession(sid, userId, u, now, ip) ==
  [id |-> sid, userId |-> userId, userEmail |-> u.email,
   userDisplayName |-> u.username, createdAt |-> now,
   lastActivity |-> now, ipAddress |-> ip, isActive |-> TRUE]

\* jwt.verify(token, secret): the signature first, then the exp claim
\* (expired when now >= exp).
jwtVerify(tok, secret, now) ==
  IF tok.key # secret THEN "JsonWebTokenError"
  ELSE IF now >= tok.exp THEN "TokenExpiredError"
  ELSE "ok"

\* validateSession without its comparison of the request's address with the
\* address the session was created from.
validateSessionAnyAddress(reg, secret, tok, ip, now) ==
  IF tok.key = "none" THEN "NO_TOKEN"
  ELSE IF jwtVerify(tok, secret, now) = "JsonWebTokenError"
       THEN "INVALID_TOKEN"
  ELSE IF jwtVerify(tok, secret, now) = "TokenExpiredError"
       THEN "TOKEN_EXPIRED"
  ELSE IF tok.sid \notin DOMAIN reg \/ ~reg[tok.sid].isActive
       THEN "SESSION_NOT_FOUND"
  ELSE IF now - reg[tok.sid].lastActivity > sessionTimeout
       THEN "SESSION_TIMEOUT"
  ELSE IF now - reg[tok.sid].createdAt > maxSessionTimeout
       THEN "SESSION_EXPIRED"
  ELSE "OK"

\* validateSession: the code of the first check that fails, "OK" when the
\* request is accepted.  reg is this manager's activeSessions.
validateSession(reg, secret, tok, ip, now) ==
  IF tok.key = "none" THEN "NO_TOKEN"
  ELSE IF jwtVerify(tok, secret, now) = "JsonWebTokenError"
       THEN "INVALID_TOKEN"
  ELSE IF jwtVerify(tok, secret, now) = "TokenExpiredError"
       THEN "TOKEN_EXPIRED"
  ELSE IF tok.sid \notin DOMAIN reg \/ ~reg[tok.sid].isActive
       THEN "SESSION_NOT_FOUND"
  ELSE IF now - reg[tok.sid].lastActivity > sessionTimeout
       THEN "SESSION_TIMEOUT"
  ELSE IF now - reg[tok.sid].createdAt > maxSessionTimeout
       THEN "SESSION_EXPIRED"
  ELSE IF reg[tok.sid].ipAddress # ip
       THEN "SESSION_INVALID"
  ELSE "OK"

\* terminateSession that marks the session inactive and logs the event but
\* leaves the record in the map.
terminateSessionKeep(reg, sid) ==
  IF sid \in DOMAIN reg
  THEN [reg |-> [reg EXCEPT ![sid].isActive = FALSE], event |-> TRUE]
  ELSE [reg |-> reg, event |-> FALSE]

\* terminateSession that logs the event outside its if (session) guard.
terminateSessionLoud(reg, sid) ==
  IF sid \in DOMAIN reg
  THEN [reg |-> [s \in DOMAIN reg \ {sid} |-> reg[s]], event |-> TRUE]
  ELSE [reg |-> reg, event |-> TRUE]

\* terminateSession: the registry afterwards, and whether a
\* SESSION_TERMINATED event was logged.
terminateSession(reg, sid) ==
  IF sid \in DOMAIN reg
  THEN [reg |-> [s \in DOMAIN reg \ {sid} |-> reg[s]], event |-> TRUE]
  ELSE [reg |-> reg, event |-> FALSE]

\* validateSession's effect without the update of lastActivity.
validateEffectStale(reg, code, sid, now) ==
  IF code \in {"SESSION_TIMEOUT", "SESSION_EXPIRED", "SESSION_INVALID"}
  THEN [reg |-> [s \in DOMAIN reg \ {sid} |-> reg[s]], event |-> TRUE]
  ELSE [reg |-> reg, event |-> FALSE]

\* validateSession's effect without the terminateSession call of the address
\* check.
validateEffectTimeouts(reg, code, sid, now) ==
  IF code \in {"SESSION_TIMEOUT", "SESSION_EXPIRED"}
  THEN [reg |-> [s \in DOMAIN reg \ {sid} |-> reg[s]], event |-> TRUE]
  ELSE IF code = "OK"
  THEN [reg |-> [reg EXCEPT ![sid].lastActivity = now], event |-> FALSE]
  ELSE [reg |-> reg, event |-> FALSE]

\* validateSession's effect on the registry: the three late checks terminate
\* the session, acceptance refreshes lastActivity.
validateEffect(reg, code, sid, now) ==
  IF code \in {"SESSION_TIMEOUT", "SESSION_EXPIRED", "SESSION_INVALID"}
  THEN terminateSession(reg, sid)
  ELSE IF code = "OK"
  THEN [reg |-> [reg EXCEPT ![sid].lastActivity = now], event |-> FALSE]
  ELSE [reg |-> reg, event |-> FALSE]

\* validateSession: req.session as attached before next() is called.
NoInfo == [id |-> 0, userId |-> 0, userEmail |-> "", userDisplayName |-> ""]

sessionInfo(s) ==
  [id |-> s.id, userId |-> s.userId, userEmail |-> s.userEmail,
   userDisplayName |-> s.userDisplayName]

\* cleanupExpiredSessions with >= in place of > in its two comparisons.
expiredIdsEager(reg, now) ==
  {s \in DOMAIN reg : now - reg[s].lastActivity >= sessionTimeout
                      \/ now - reg[s].createdAt >= maxSessionTimeout}

\* cleanupExpiredSessions: the ids the sweep terminates.
expiredIds(reg, now) ==
  {s \in DOMAIN reg : now - reg[s].lastActivity > sessionTimeout
                      \/ now - reg[s].createdAt > maxSessionTimeout}

\* handleInvalidSession: res.status(401).json({error: 'Authentication
\* required', code, requiresLogin: true})
handleInvalidSession(code) ==
  [status |-> 401, error |-> "Authentication required", code |-> code]


\* ------------------------------------------------------------------ routes
\* Every route registered with a router, the SessionManager object its
\* router was built with, and the middleware placed before its handler.
\* (The express-validator checks of the auth routes reject nothing
\* themselves: the handler reads validationResult and answers 400.)
AuthRoutes ==
  { [name |-> "POST /auth/logout", inst |-> "auth",
     chain |-> <<"validateSession">>],
    [name |-> "GET /auth/me", inst |-> "auth",
     chain |-> <<"validateSession">>],
    [name |-> "POST /auth/change-password", inst |-> "auth",
     chain |-> <<"validateSession">>],
    [name |-> "POST /auth/update-profile", inst |-> "auth",
     chain |-> <<"validateSession">>],
    [name |-> "GET /auth/session-status", inst |-> "auth",
     chain |-> <<"validateSession">>] }

AdminRoutes ==
  { [name |-> "GET /auth/admin/users", inst |-> "auth",
     chain |-> <<"validateSession", "requireAdmin">>],
    [name |-> "POST /auth/admin/users", inst |-> "auth",
     chain |-> <<"validateSession", "requireAdmin">>],
    [name |-> "PUT /auth/admin/users/:userId/activate", inst |-> "auth",
     chain |-> <<"validateSession", "requireAdmin">>],
    [name |-> "GET /auth/admin/audit-logs", inst |-> "auth",
     chain |-> <<"validateSession", "requireAdmin">>] }

JiraRoutes ==
  { [name |-> "GET /api/jira/user", inst |-> "jira",
     chain |-> <<"validateSession">>],
    [name |-> "GET /api/jira/tickets/assigned", inst |-> "jira",
     chain |-> <<"validateSession", "handleValidationErrors">>],
    [name |-> "GET /api/jira/tickets/created", inst |-> "jira",
     chain |-> <<"validateSession", "handleValidationErrors">>],
    [name |-> "POST /api/jira/tickets/:issueKey/comment", inst |-> "jira",
     chain |-> <<"validateSession", "handleValidationErrors">>],
    [name |-> "GET /api/jira/tickets/:issueKey/transitions", inst |-> "jira",
     chain |-> <<"validateSession", "handleValidationErrors">>],
    [name |-> "POST /api/jira/tickets/:issueKey/transition", inst |-> "jira",
     chain |-> <<"validateSession", "handleValidationErrors">>] }

Routes == AuthRoutes \cup AdminRoutes \cup JiraRoutes

\* requireAdmin that tests only that the user exists.
requireAdminAnyUser(us, info) == info.userId \in DOMAIN us

\* requireAdmin: getUserById(req.session.userId), then the role test.
requireAdmin(us, info) ==
  info.userId \in DOMAIN us /\ us[info.userId].role = "admin"

\* A chain whose validateSession answers 401 without returning, so that the
\* next middleware runs all the same.
RECURSIVE runChainPassing(_, _, _, _, _, _, _)
runChainPassing(chain, k, code, info, ctx, us, inputOk) ==
  IF k > Len(chain) THEN [status |-> 0, session |-> ctx]
  ELSE IF chain[k] = "validateSession"
  THEN runChainPassing(chain, k + 1, code, info,
                       IF code = "OK" THEN info ELSE ctx, us, inputOk)
  ELSE IF chain[k] = "requireAdmin"
  THEN IF ctx = NoInfo THEN [status |-> 500, session |-> ctx]
       ELSE IF info.userId \in DOMAIN us /\ us[info.userId].role = "admin"
       THEN runChainPassing(chain, k + 1, code, info, ctx, us, inputOk)
       ELSE [status |-> 403, session |-> ctx]
  ELSE IF chain[k] = "handleValidationErrors"
  THEN IF inputOk
       THEN runChainPassing(chain, k + 1, code, info, ctx, us, inputOk)
       ELSE [status |-> 400, session |-> ctx]
  ELSE runChainPassing(chain, k + 1, code, info, ctx, us, inputOk)

\* Express runs a route's middleware in order; each either answers the
\* request itself or calls next().  The result is the status of the
\* middleware that answered, or 0 when the handler is reached, with the
\* req.session the handler sees.
\* code is validateSession's verdict and info the req.session it attaches
\* on acceptance, ctx the req.session so far (NoInfo: undefined), inputOk
\* whether the request's parameters pass the route's validators.
RECURSIVE runChain(_, _, _, _, _, _, _)
runChain(chain, k, code, info, ctx, us, inputOk) ==
  IF k > Len(chain) THEN [status |-> 0, session |-> ctx]
  ELSE IF chain[k] = "validateSession"
  THEN IF code = "OK"
       THEN runChain(chain, k + 1, code, info, info, us, inputOk)
       ELSE [status |-> 401, session |-> ctx]
  ELSE IF chain[k] = "requireAdmin"
  THEN IF ctx = NoInfo THEN [status |-> 500, session |-> ctx]
       ELSE IF requireAdmin(us, ctx)
       THEN runChain(chain, k + 1, code, info, ctx, us, inputOk)
       ELSE [status |-> 403, session |-> ctx]
  ELSE IF chain[k] = "handleValidationErrors"
  THEN IF inputOk
       THEN runChain(chain, k + 1, code, info, ctx, us, inputOk)
       ELSE [status |-> 400, session |-> ctx]
  ELSE runChain(chain, k + 1, code, info, ctx, us, inputOk)


\* --------------------------------------------------------- user management
\* The characters of the classes validatePassword tests for.
Digits == {"0", "1", "2", "3", "4", "5", "6", "7", "8", "9"}
LowerCase ==
  {"a", "b", "c", "d", "e", "f", "g", "h", "i", "j", "k", "l", "m", "n", "o",
   "p", "q", "r", "s", "t", "u", "v", "w", "x", "y", "z"}
UpperCase ==
  {"A", "B", "C", "D", "E", "F", "G", "H", "I", "J", "K", "L", "M", "N", "O",
   "P", "Q", "R", "S", "T", "U", "V", "W", "X", "Y", "Z"}
SpecialChars == {"!", "@", "#", "$", "%", "^", "&", "*"}

\* Secrets put to validatePassword beside those a client types at login: one
\* whose only symbol is none of !@#$%^&*, and one without a capital.
QuestionSecret == "Passw0rd?"
SmallSecret == "nocapital1!"
NewSecrets == Secrets \cup {QuestionSecret, SmallSecret}

\* The characters of each secret.
Spelling(p) ==
  CASE p = AdminSecret ->
         <<"C", "h", "a", "n", "g", "e", "M", "e", "1", "2", "3", "!">>
    [] p = BobSecret -> <<"B", "o", "b", "s", "-", "P", "w", "-", "9", "!">>
    [] p = WrongSecret -> <<"g", "u", "e", "s", "s">>
    [] p = QuestionSecret -> <<"P", "a", "s", "s", "w", "0", "r", "d", "?">>
    [] p = SmallSecret ->
         <<"n", "o", "c", "a", "p", "i", "t", "a", "l", "1", "!">>
    [] OTHER -> <<>>

\* What validatePassword tests of a secret: its length and whether it holds
\* a lowercase letter, an uppercase letter, a digit and one of !@#$%^&*.
SecretShape(p) ==
  [len |-> Len(Spelling(p)),
   lower |-> \E k \in DOMAIN Spelling(p) : Spelling(p)[k] \in LowerCase,
   upper |-> \E k \in DOMAIN Spelling(p) : Spelling(p)[k] \in UpperCase,
   digit |-> \E k \in DOMAIN Spelling(p) : Spelling(p)[k] \in Digits,
   special |-> \E k \in DOMAIN Spelling(p) : Spelling(p)[k] \in SpecialChars]

\* validatePassword: the first rule the secret breaks, "ok" when none.
validatePassword(p) ==
  LET sh == SecretShape(p)
  IN  IF sh.len < 8 THEN "Password must be at least 8 characters long"
      ELSE IF ~sh.lower
      THEN "Password must contain at least one lowercase letter"
      ELSE IF ~sh.upper
      THEN "Password must contain at least one uppercase letter"
      ELSE IF ~sh.digit THEN "Password must contain at least one number"
      ELSE IF ~sh.special
      THEN "Password must contain at least one special character (!@#$%^&*)"
      ELSE "ok"

\* isValidEmail: /^[a-zA-Z0-9._%+-]+@[a-zA-Z0-9.-]+\.[a-zA-Z]{2,}$/ over
\* the addresses a client may send; "admin@localhost" has no dotted domain.
Emails == {"bob@example.com", "eve@example.com", "admin@localhost"}

isValidEmail(e) == e \in {"bob@example.com", "eve@example.com"}

\* createUser: crypto.randomUUID() draws an id no record has; ids are
\* numbered in the order they are drawn.
freshUserId(us) == Cardinality(DOMAIN us) + 1

\* createUser: the store afterwards and the error ("" on success).
createUser(us, username, email, password, role) ==
  IF username = "" \/ email = "" \/ password = ""
  THEN [us |-> us, error |-> "Username, email, and password are required"]
  ELSE IF \E id \in DOMAIN us :
            us[id].username = username \/ us[id].email = email
  THEN [us |-> us, error |-> "Username or email already exists"]
  ELSE IF validatePassword(password) # "ok"
  THEN [us |-> us, error |-> validatePassword(password)]
  ELSE [us |-> us @@ (freshUserId(us) :>
                        NewUser(username, email, password, role)),
        error |-> ""]

\* deactivateUser: refuses an unknown id and an administrator.
deactivateUser(us, id) ==
  IF id \in DOMAIN us /\ us[id].role # "admin"
  THEN [us |-> [us EXCEPT ![id].isActive = FALSE], ok |-> TRUE]
  ELSE [us |-> us, ok |-> FALSE]

\* activateUser: also clears the failure counter and the lock.
activateUser(us, id) ==
  IF id \in DOMAIN us
  THEN [us |-> [us EXCEPT ![id].isActive = TRUE,
                          ![id].loginAttempts = 0,
                          ![id].lockedUntil = Null],
        ok |-> TRUE]
  ELSE [us |-> us, ok |-> FALSE]

\* changePassword without the test of the current secret.
changePasswordUnverified(us, id, currentPassword, newPassword, saved) ==
  IF id \notin DOMAIN us THEN [us |-> us, error |-> "User not found"]
  ELSE IF validatePassword(newPassword) # "ok"
  THEN [us |-> us, error |-> validatePassword(newPassword)]
  ELSE [us |-> [us EXCEPT ![id].password = hashPassword(newPassword),
                          ![id].mustChangePassword = FALSE],
        error |-> IF saved THEN "" ELSE "Failed to change password"]

\* changePassword: the store afterwards and the error ("" on success).
\* saved: whether saveUsers wrote the users file; when it throws, the record
\* in memory has been changed already.
changePassword(us, id, currentPassword, newPassword, saved) ==
  IF id \notin DOMAIN us THEN [us |-> us, error |-> "User not found"]
  ELSE IF ~bcryptCompare(currentPassword, us[id].password)
  THEN [us |-> us, error |-> "Current password is incorrect"]
  ELSE IF validatePassword(newPassword) # "ok"
  THEN [us |-> us, error |-> validatePassword(newPassword)]
  ELSE [us |-> [us EXCEPT ![id].password = hashPassword(newPassword),
                          ![id].mustChangePassword = FALSE],
        error |-> IF saved THEN "" ELSE "Failed to change password"]

\* updateUserProfile: updates maps the keys of the request body to their
\* values; only email and preferences are copied to the record, any other
\* key is skipped.
updateUserProfile(us, id, updates) ==
  IF id \notin DOMAIN us THEN [us |-> us, error |-> "User not found"]
  ELSE IF "email" \in DOMAIN updates /\ ~isValidEmail(updates["email"])
  THEN [us |-> us, error |-> "Invalid email format"]
  ELSE [us |-> [us EXCEPT
                  ![id].email = IF "email" \in DOMAIN updates
                                THEN updates["email"] ELSE @,
                  ![id].preferences = IF "preferences" \in DOMAIN updates
                                      THEN updates["preferences"] ELSE @],
        error |-> ""]


\* ------------------------------------------------------------ PHI detector
\* Text is a sequence of one-character strings.
\* \w, \d and \s of a regular expression without the u flag.
WordChars == Digits \cup LowerCase \cup UpperCase \cup {"_"}
SpaceChars == {" "}

\* String.prototype.toUpperCase on one character.
toUpperCase(c) ==
  CASE c = "a" -> "A" [] c = "b" -> "B" [] c = "c" -> "C" [] c = "d" -> "D"
    [] c = "e" -> "E" [] c = "f" -> "F" [] c = "g" -> "G" [] c = "h" -> "H"
    [] c = "i" -> "I" [] c = "j" -> "J" [] c = "k" -> "K" [] c = "l" -> "L"
    [] c = "m" -> "M" [] c = "n" -> "N" [] c = "o" -> "O" [] c = "p" -> "P"
    [] c = "q" -> "Q" [] c = "r" -> "R" [] c = "s" -> "S" [] c = "t" -> "T"
    [] c = "u" -> "U" [] c = "v" -> "V" [] c = "w" -> "W" [] c = "x" -> "X"
    [] c = "y" -> "Y" [] c = "z" -> "Z"
    [] OTHER -> c

\* Regular expressions as trees: a character class, a concatenation, an
\* alternation (first alternative preferred), a greedy repetition {lo,hi},
\* and the word boundary \b.
Set(S) == <<"set", S>>
Cat(rs) == <<"cat", rs>>
Alt(rs) == <<"alt", rs>>
Rep(r, lo, hi) == <<"rep", r, lo, hi>>
Opt(r) == Rep(r, 0, 1)
WordBoundary == <<"wb">>
\* Unbounded repetition: no text is longer than this.
Many == 64
\* A keyword under the i flag: each letter in either case.
Word(w) == Cat([k \in 1 .. Len(w) |-> Set({w[k], toUpperCase(w[k])})])
\* A keyword without the i flag.
Exact(w) == Cat([k \in 1 .. Len(w) |-> Set({w[k]})])

\* s without the positions that repeat an earlier one.
Distinct(s) ==
  LET keep == {k \in 1 .. Len(s) : \A j \in 1 .. k - 1 : s[j] # s[k]}
  IN  [n \in 1 .. Cardinality(keep) |->
         s[CHOOSE k \in keep : Cardinality({j \in keep : j < k}) = n - 1]]

isWordAt(t, i) == i >= 1 /\ i <= Len(t) /\ t[i] \in WordChars

\* The backtracking matcher: the positions at which a match of r that
\* starts at position i of t can end (the position after its last
\* character), in the order the engine tries them.
RECURSIVE Ends(_, _, _), CatEnds(_, _, _, _), AltEnds(_, _, _, _),
          RepEnds(_, _, _, _, _), Each(_, _, _, _, _, _, _)
Ends(r, t, i) ==
  CASE r[1] = "set" -> IF i <= Len(t) /\ t[i] \in r[2] THEN <<i + 1>> ELSE <<>>
    [] r[1] = "wb"  -> IF isWordAt(t, i - 1) # isWordAt(t, i) THEN <<i>>
                       ELSE <<>>
    [] r[1] = "cat" -> CatEnds(r[2], 1, t, i)
    [] r[1] = "alt" -> AltEnds(r[2], 1, t, i)
    [] r[1] = "rep" -> RepEnds(r[2], r[3], r[4], t, i)

\* The continuation run from each of the positions js[n], js[n+1], .. in
\* turn: mode "cat" continues with rs[a], rs[a+1], .., mode "rep" with
\* between a and b more repetitions of rs.
Each(mode, rs, a, b, t, js, n) ==
  IF n > Len(js) THEN <<>>
  ELSE CHOOSE out \in
         { Distinct(first \o rest) :
             first \in { IF mode = "cat" THEN CatEnds(rs, a, t, js[n])
                         ELSE RepEnds(rs, a, b, t, js[n]) },
             rest \in { Each(mode, rs, a, b, t, js, n + 1) } } : TRUE

CatEnds(rs, k, t, i) ==
  IF k > Len(rs) THEN <<i>>
  ELSE CHOOSE out \in
         { Each("cat", rs, k + 1, 0, t, js, 1) :
             js \in { Ends(rs[k], t, i) } } : TRUE

AltEnds(rs, k, t, i) ==
  IF k > Len(rs) THEN <<>>
  ELSE CHOOSE out \in
         { Distinct(first \o rest) :
             first \in { Ends(rs[k], t, i) },
             rest \in { AltEnds(rs, k + 1, t, i) } } : TRUE

\* A repeated character class takes the longest run first and gives it
\* back one character at a time.
RepEnds(r, lo, hi, t, i) ==
  IF r[1] = "set"
  THEN LET run == CHOOSE n \in 0 .. hi :
                    /\ i + n <= Len(t) + 1
                    /\ \A k \in 0 .. n - 1 : t[i + k] \in r[2]
                    /\ n = hi \/ i + n > Len(t) \/ t[i + n] \notin r[2]
       IN  IF run < lo THEN <<>>
           ELSE [n \in 1 .. run - lo + 1 |-> i + run - n + 1]
  ELSE CHOOSE out \in
         { IF lo = 0 THEN Distinct(Append(more, i)) ELSE more :
             more \in { IF hi = 0 THEN <<>>
                        ELSE Each("rep", r, IF lo = 0 THEN 0 ELSE lo - 1,
                                  hi - 1, t,
                                  SelectSeq(Ends(r, t, i), LAMBDA j : j > i),
                                  1) } } : TRUE

\* ..................................................... initializePatterns
Digit == Set(Digits)
Spaces == Rep(Set(SpaceChars), 0, Many)
IdChars == Set(WordChars \cup {"-"})
Separator == Opt(Set({"-", ".", " "}))

\* /\b(?:\d{3}-?\d{2}-?\d{4})\b/g
ssnRegex ==
  Cat(<<WordBoundary, Rep(Digit, 3, 3), Opt(Set({"-"})), Rep(Digit, 2, 2),
        Opt(Set({"-"})), Rep(Digit, 4, 4), WordBoundary>>)

\* /\b(?:MRN|mrn|medical\s*record\s*(?:number|#)?)\s*:?\s*[\w\d-]{6,20}\b/gi
mrnRegex ==
  Cat(<<WordBoundary,
        Alt(<<Word(<<"m", "r", "n">>), Word(<<"m", "r", "n">>),
              Cat(<<Word(<<"m", "e", "d", "i", "c", "a", "l">>), Spaces, Word(<<"r", "e", "c", "o", "r", "d">>), Spaces,
                    Opt(Alt(<<Word(<<"n", "u", "m", "b", "e", "r">>), Set({"#"})>>))>>)>>),
        Spaces, Opt(Set({":"})), Spaces, Rep(IdChars, 6, 20), WordBoundary>>)

\* /\b(?:\+?1[-.\s]?)?\(?([0-9]{3})\)?[-.\s]?([0-9]{3})[-.\s]?([0-9]{4})\b/g
phoneRegex ==
  Cat(<<WordBoundary,
        Opt(Cat(<<Opt(Set({"+"})), Set({"1"}), Separator>>)),
        Opt(Set({"("})), Rep(Digit, 3, 3), Opt(Set({")"})), Separator,
        Rep(Digit, 3, 3), Separator, Rep(Digit, 4, 4), WordBoundary>>)

\* /\b[A-Za-z0-9._%+-]+@[A-Za-z0-9.-]+\.[A-Z|a-z]{2,}\b/g
emailRegex ==
  Cat(<<WordBoundary,
        Rep(Set(LowerCase \cup UpperCase \cup Digits
                \cup {".", "_", "%", "+", "-"}), 1, Many),
        Set({"@"}),
        Rep(Set(LowerCase \cup UpperCase \cup Digits \cup {".", "-"}), 1, Many),
        Set({"."}),
        Rep(Set(LowerCase \cup UpperCase \cup {"|"}), 2, Many),
        WordBoundary>>)

\* /\b(?:dob|date\s*of\s*birth|born|birthday)\s*:?\s*(?:\d{1,2}[\/\-]\d{1,2}
\* [\/\-]\d{2,4}|\d{2,4}[\/\-]\d{1,2}[\/\-]\d{1,2})\b/gi
dobRegex ==
  Cat(<<WordBoundary,
        Alt(<<Word(<<"d", "o", "b">>),
              Cat(<<Word(<<"d", "a", "t", "e">>), Spaces, Word(<<"o", "f">>), Spaces, Word(<<"b", "i", "r", "t", "h">>)>>),
              Word(<<"b", "o", "r", "n">>), Word(<<"b", "i", "r", "t", "h", "d", "a", "y">>)>>),
        Spaces, Opt(Set({":"})), Spaces,
        Alt(<<Cat(<<Rep(Digit, 1, 2), Set({"/", "-"}), Rep(Digit, 1, 2),
                    Set({"/", "-"}), Rep(Digit, 2, 4)>>),
              Cat(<<Rep(Digit, 2, 4), Set({"/", "-"}), Rep(Digit, 1, 2),
                    Set({"/", "-"}), Rep(Digit, 1, 2)>>)>>),
        WordBoundary>>)

\* /\b\d+\s+[A-Za-z\s]+(?:Street|St|Avenue|Ave|Road|Rd|Drive|Dr|Lane|Ln|
\* Boulevard|Blvd)\b/gi
addressRegex ==
  Cat(<<WordBoundary, Rep(Digit, 1, Many), Rep(Set(SpaceChars), 1, Many),
        Rep(Set(LowerCase \cup UpperCase \cup SpaceChars), 1, Many),
        Alt(<<Word(<<"s", "t", "r", "e", "e", "t">>), Word(<<"s", "t">>), Word(<<"a", "v", "e", "n", "u", "e">>), Word(<<"a", "v", "e">>), Word(<<"r", "o", "a", "d">>), Word(<<"r", "d">>), Word(<<"d", "r", "i", "v", "e">>), Word(<<"d", "r">>),
              Word(<<"l", "a", "n", "e">>), Word(<<"l", "n">>), Word(<<"b", "o", "u", "l", "e", "v", "a", "r", "d">>), Word(<<"b", "l", "v", "d">>)>>),
        WordBoundary>>)

\* /\b(?:insurance|member|policy)\s*(?:id|number|#)?\s*:?\s*[\w\d-]{8,20}\b/gi
insuranceRegex ==
  Cat(<<WordBoundary, Alt(<<Word(<<"i", "n", "s", "u", "r", "a", "n", "c", "e">>), Word(<<"m", "e", "m", "b", "e", "r">>), Word(<<"p", "o", "l", "i", "c", "y">>)>>), Spaces,
        Opt(Alt(<<Word(<<"i", "d">>), Word(<<"n", "u", "m", "b", "e", "r">>), Set({"#"})>>)),
        Spaces, Opt(Set({":"})), Spaces, Rep(IdChars, 8, 20), WordBoundary>>)

\* /\b(?:patient|pat)\s*(?:id|number|#)\s*:?\s*[\w\d-]{5,15}\b/gi
patientIdRegex ==
  Cat(<<WordBoundary, Alt(<<Word(<<"p", "a", "t", "i", "e", "n", "t">>), Word(<<"p", "a", "t">>)>>), Spaces,
        Alt(<<Word(<<"i", "d">>), Word(<<"n", "u", "m", "b", "e", "r">>), Set({"#"})>>),
        Spaces, Opt(Set({":"})), Spaces, Rep(IdChars, 5, 15), WordBoundary>>)

\* /\b(?:\d{4}[-\s]?){3}\d{4}\b/g
creditCardRegex ==
  Cat(<<WordBoundary,
        Rep(Cat(<<Rep(Digit, 4, 4), Opt(Set({"-", " "}))>>), 3, 3),
        Rep(Digit, 4, 4), WordBoundary>>)

\* this.patterns, in the order Object.entries visits it.
patterns ==
  << [type |-> "ssn", regex |-> ssnRegex, validator |-> FALSE],
     [type |-> "mrn", regex |-> mrnRegex, validator |-> FALSE],
     [type |-> "phone", regex |-> phoneRegex, validator |-> FALSE],
     [type |-> "email", regex |-> emailRegex, validator |-> FALSE],
     [type |-> "dob", regex |-> dobRegex, validator |-> FALSE],
     [type |-> "address", regex |-> addressRegex, validator |-> FALSE],
     [type |-> "insurance", regex |-> insuranceRegex, validator |-> FALSE],
     [type |-> "patientId", regex |-> patientIdRegex, validator |-> FALSE],
     [type |-> "creditCard", regex |-> creditCardRegex, validator |-> TRUE] >>

\* parseInt on one digit.
parseInt(c) ==
  CASE c = "0" -> 0 [] c = "1" -> 1 [] c = "2" -> 2 [] c = "3" -> 3
    [] c = "4" -> 4 [] c = "5" -> 5 [] c = "6" -> 6 [] c = "7" -> 7
    [] c = "8" -> 8 [] c = "9" -> 9

\* isValidCreditCard: the Luhn sum over the digits of the match, every
\* second digit from the right doubled.
RECURSIVE luhnSum(_, _, _)
luhnSum(digits, i, isEven) ==
  IF i = 0 THEN 0
  ELSE LET d == parseInt(digits[i])
           v == IF ~isEven THEN d ELSE IF 2 * d > 9 THEN 2 * d - 9 ELSE 2 * d
       IN  v + luhnSum(digits, i - 1, ~isEven)

isValidCreditCard(number) ==
  LET digits == SelectSeq(number, LAMBDA c : c \in Digits)
  IN  /\ Len(digits) >= 13 /\ Len(digits) <= 19
      /\ luhnSum(digits, Len(digits), FALSE) % 10 = 0

\* The matches a global regular expression finds in t from position i on:
\* leftmost first, each search resuming where the last match ended.  A
\* match is the pair of its first position and the position after its last.
RECURSIVE matchAll(_, _, _)
matchAll(regex, t, i) ==
  IF i > Len(t) THEN <<>>
  ELSE CHOOSE out \in
         { IF e = <<>> THEN matchAll(regex, t, i + 1)
           ELSE <<<<i, e[1]>>>> \o matchAll(regex, t, e[1]) :
             e \in { Ends(regex, t, i) } } : TRUE

\* The matches of a pattern that count: all of them, or those its validator
\* accepts.
validMatches(p, t) ==
  SelectSeq(matchAll(p.regex, t, 1),
            LAMBDA m : ~p.validator
                       \/ isValidCreditCard(SubSeq(t, m[1], m[2] - 1)))

\* scanForPHI: the findings, as <<type, match>>, pattern after pattern.
RECURSIVE findingsFrom(_, _)
findingsFrom(k, t) ==
  IF k > Len(patterns) THEN <<>>
  ELSE LET ms == validMatches(patterns[k], t)
       IN  IF ms = <<>> THEN findingsFrom(k + 1, t)
           ELSE [n \in 1 .. Len(ms) |->
                   <<patterns[k].type, SubSeq(t, ms[n][1], ms[n][2] - 1)>>]
                \o findingsFrom(k + 1, t)

scanForPHI(t) ==
  [hasPHI |-> findingsFrom(1, t) # <<>>, findings |-> findingsFrom(1, t)]

redactionText ==
  <<"[", "R", "E", "D", "A", "C", "T", "E", "D", "-", "P", "H", "I", "]">>
\* A mask character that is a digit.
maskDigit == "0"
maskChar == "*"

\* String.prototype.replace with a global regular expression: the text
\* from position i on with every counted match ms[n .. ] replaced.
RECURSIVE replaceFrom(_, _, _, _, _)
replaceFrom(t, ms, n, i, preserveLength) ==
  IF n > Len(ms) THEN SubSeq(t, i, Len(t))
  ELSE SubSeq(t, i, ms[n][1] - 1)
       \o (IF preserveLength
           THEN [k \in 1 .. ms[n][2] - ms[n][1] |-> maskChar]
           ELSE redactionText)
       \o replaceFrom(t, ms, n + 1, ms[n][2], preserveLength)

\* sanitizeText: the patterns applied one after the other, each to the
\* result of the one before.
RECURSIVE sanitizeFrom(_, _, _)
sanitizeFrom(k, t, preserveLength) ==
  IF k > Len(patterns) THEN t
  ELSE CHOOSE out \in
         { sanitizeFrom(k + 1, replaced, preserveLength) :
             replaced \in { replaceFrom(t, validMatches(patterns[k], t), 1, 1,
                                        preserveLength) } } : TRUE

sanitizeText(t, preserveLength) == sanitizeFrom(1, t, preserveLength)

\* sanitizeObject with its default options: every string in which
\* scanForPHI has a finding is replaced by its sanitized text.  obj is a
\* JSON value, a function from paths to the texts at its leaves.
sanitizeObject(obj) ==
  [p \in DOMAIN obj |->
     IF scanForPHI(obj[p]).hasPHI THEN sanitizeText(obj[p], TRUE) ELSE obj[p]]

\* scanObjectForPHI(obj).hasPHI
scanObjectForPHI(obj) == \E p \in DOMAIN obj : scanForPHI(obj[p]).hasPHI

\* PHIDetector.middleware on a request with the given body and query: the
\* answer it sends (status 0: none, next() is called), and req as the next
\* handler receives it.
phiMiddleware(blockOnDetection, body, query) ==
  IF scanObjectForPHI(body) /\ blockOnDetection
  THEN [status |-> 400, code |-> "PHI_DETECTED", body |-> body,
        query |-> query, phiDetected |-> FALSE]
  ELSE IF scanObjectForPHI(query) /\ blockOnDetection
  THEN [status |-> 400, code |-> "PHI_DETECTED_QUERY", body |-> body,
        query |-> query, phiDetected |-> FALSE]
  ELSE [status |-> 0, code |-> "",
        body |-> IF scanObjectForPHI(body) THEN sanitizeObject(body)
                 ELSE body,
        query |-> query, phiDetected |-> scanObjectForPHI(body)]

\* -------------------------------------------------------------- audit log
\* A JSON value is a function from paths (sequences of property names) to
\* the texts at its leaves; a value that is no object has the empty path
\* alone.  A text is a sequence of characters; Opaque(s) is a text whose
\* spelling does not matter, kept as one symbol that no pattern reads.
Opaque(s) == <<s>>
Scalar(v) == (<<>> :> v)
NullJson == Scalar(Opaque("null"))
EmptyJson == <<>>

\* { key: value }
Prop(key, value) ==
  [p \in { <<key>> \o q : q \in DOMAIN value } |->
     value[SubSeq(p, 2, Len(p))]]

\* The entry's own properties first ( { ...base, ...data } with the keys
\* of data winning).
Spread(base, data) ==
  data @@ [p \in { q \in DOMAIN base :
                     \A d \in DOMAIN data : d = <<>> \/ d[1] # q[1] } |->
             base[p]]

\* phiFields.some(phi => key.toLowerCase().includes(phi.toLowerCase())) on
\* the property names requests use here: ssn and patientName hold an entry
\* of phiFields, comment, note, email, q, username and patient hold none.
isPHIKey(key) == key \in {"ssn", "patientName"}

redactedPHI == redactionText

\* removePHIFields: a property whose name is listed is overwritten with
\* '[REDACTED-PHI]', any other property that is an object is searched.
\* cut(p) is the first listed name on the path p.
cut(p) ==
  IF \E k \in 1 .. Len(p) : isPHIKey(p[k])
  THEN SetMin({k \in 1 .. Len(p) : isPHIKey(p[k])}) ELSE 0

\* sanitizeForAudit: null for a missing value, else a deep copy with the
\* listed properties overwritten.
sanitizeForAudit(data) ==
  IF data = NullJson THEN NullJson
  ELSE [q \in { IF cut(p) = 0 THEN p ELSE SubSeq(p, 1, cut(p)) :
                  p \in DOMAIN data } |->
          IF cut(q) = 0 THEN data[q] ELSE redactedPHI]

\* this.encryptionKey || 'default-key'
encryptionKey == "default-key"

\* calculateIntegrityHash: JSON.stringify(entry, Object.keys(entry).sort())
\* serialises, at every depth, only the properties whose name is one of
\* the entry's own top-level names; the HMAC is a one-way image of that
\* string under the key.
calculateIntegrityHash(entry) ==
  LET keys == { p[1] : p \in DOMAIN entry }
      kept == { p \in DOMAIN entry : \A k \in 1 .. Len(p) : p[k] \in keys }
      objs == UNION { { SubSeq(p, 1, n) : n \in 1 .. Len(p) - 1 } :
                        p \in DOMAIN entry }
  IN  [key |-> encryptionKey,
       string |-> [p \in kept |-> entry[p]],
       objects |-> { q \in objs : \A k \in 1 .. Len(q) : q[k] \in keys }]

\* createAuditEntry: the standard properties, the caller's data over them,
\* and the digest of the whole.
createAuditEntry(data) ==
  LET baseEntry ==
        Spread(Prop("auditId", Scalar(Opaque("uuid")))
               @@ Prop("timestamp", Scalar(Opaque("now")))
               @@ Prop("application", Scalar(Opaque("JIRA_DASHBOARD")))
               @@ Prop("version", Scalar(Opaque("1.0.0")))
               @@ Prop("environment", Scalar(Opaque("development"))),
               data)
  IN  [fields |-> baseEntry, integrity |-> calculateIntegrityHash(baseEntry)]

\* What the audit calls read off the request: req.session and the address.
reqData(userId) ==
  Prop("userId", Scalar(Opaque(userId)))
  @@ Prop("ipAddress", Scalar(Opaque("ip1")))
  @@ Prop("timestamp", Scalar(Opaque("now")))

logAccess(userId, action, resource, result, additionalData) ==
  createAuditEntry(
    Spread(Prop("eventType", Scalar(Opaque("ACCESS")))
           @@ Prop("action", Scalar(Opaque(action)))
           @@ Prop("resource", Scalar(Opaque(resource)))
           @@ Prop("result", Scalar(Opaque(result)))
           @@ reqData(userId),
           additionalData))

logDataModification(userId, action, resourceType, oldValues, newValues) ==
  createAuditEntry(
    Prop("eventType", Scalar(Opaque("DATA_MODIFICATION")))
    @@ Prop("action", Scalar(Opaque(action)))
    @@ Prop("resourceType", Scalar(Opaque(resourceType)))
    @@ reqData(userId)
    @@ Prop("changes", Prop("before", sanitizeForAudit(oldValues))
                       @@ Prop("after", sanitizeForAudit(newValues))))

logAuthentication(userId, action, result, additionalData) ==
  createAuditEntry(
    Spread(Prop("eventType", Scalar(Opaque("AUTHENTICATION")))
           @@ Prop("action", Scalar(Opaque(action)))
           @@ Prop("result", Scalar(Opaque(result)))
           @@ reqData(userId),
           additionalData))

logSecurityEvent(eventType, details, severity) ==
  createAuditEntry(
    Prop("eventType", Scalar(Opaque("SECURITY")))
    @@ Prop("securityEventType", Scalar(Opaque(eventType)))
    @@ Prop("severity", Scalar(Opaque(severity)))
    @@ Prop("details", sanitizeForAudit(details))
    @@ Prop("timestamp", Scalar(Opaque("now")))
    @@ Prop("source", Scalar(Opaque("SECURITY_MONITOR"))))


\* ------------------------------------------------------------------- state
\* No body sent by handleInvalidSession.
NoResponse == [status |-> 0, error |-> "", code |-> ""]

\* What the step just taken answered and did; every step overwrites it.
\* The fields found .. ipOk, wasValidated, wasTerminated, isAdmin, existed,
\* wasActive, wasLocked, activeNow and lockedNow are read off the state the
\* step started in.
NoReq ==
  [kind |-> "none", inst |-> "none", status |-> 0, code |-> "",
   error |-> "", handlerRan |-> FALSE, session |-> NoInfo, sid |-> 0,
   genuine |-> FALSE, found |-> FALSE, active |-> FALSE, idleOk |-> FALSE,
   absOk |-> FALSE, ipOk |-> FALSE, wasValidated |-> FALSE,
   wasTerminated |-> FALSE, adminRoute |-> FALSE, isAdmin |-> FALSE,
   usersChanged |-> FALSE, regChanged |-> FALSE, audit |-> <<>>,
   user |-> 0, existed |-> FALSE, wasActive |-> FALSE, wasLocked |-> FALSE,
   matched |-> FALSE, activeNow |-> FALSE, lockedNow |-> FALSE,
   dueAtStart |-> FALSE, response |-> NoResponse, returned |-> <<>>,
   secret |-> "", saved |-> TRUE, updates |-> <<>>, sessions |-> 0,
   present |-> FALSE, verified |-> FALSE, at |-> 0, ended |-> 0,
   entries |-> <<>>, written |-> FALSE, appendOk |-> TRUE, filed |-> <<>>,
   fallback |-> <<>>, rejected |-> FALSE, issuedTok |-> FALSE,
   loginAddr |-> FALSE]

\* No request has reached the PHI detector; no text has been sanitized.
NoPhiReq ==
  [phase |-> "none", rawBody |-> <<>>, rawQuery |-> <<>>, body |-> <<>>,
   query |-> <<>>, status |-> 0, code |-> "", handlerRan |-> FALSE,
   phiDetected |-> FALSE, mounted |-> FALSE, blockOnDetection |-> FALSE]
NoText ==
  [input |-> <<>>, preserveLength |-> TRUE, sanitized |-> <<>>,
   findings |-> <<>>, again |-> <<>>, done |-> FALSE]
\* No guarded request is between its validation and its answer.
NoPending ==
  [active |-> FALSE, route |-> "", tok |-> NoToken, ip |-> "",
   session |-> NoInfo, at |-> 0]
\* No comment has been typed.
NoComment ==
  [input |-> <<>>, server |-> "none", sanitized |-> <<>>, client |-> "none",
   sent |-> <<>>]

\* A login request that is not waiting for bcrypt.compare.
IdleSlot ==
  [pc |-> "idle", userId |-> 0, username |-> "", valid |-> FALSE, ip |-> "",
   wasActive |-> FALSE, wasLocked |-> FALSE, dueAtStart |-> FALSE]

Slots == 1 .. MaxInFlight
UserIds == 1 .. MaxUsers
SessionIds == 1 .. MaxSessions

\* SessionManager constructor: JWT_SECRET from the environment when it is
\* set (then every manager signs with it), otherwise random bytes drawn per
\* manager.
SecretChoices ==
  { [i \in Insts |-> "env"], [i \in Insts |-> i] }

\* The state once the process has started: users loaded, no session; the
\* managers' secrets are one of choices.
Start(choices) ==
  /\ clock = 0
  /\ users = LoadedUsers
  /\ activeSessions = [i \in Insts |-> <<>>]
  /\ jwtSecret \in choices
  /\ nextSid = 0
  /\ issued = <<>>
  /\ auth = [sl \in Slots |-> IdleSlot]
  /\ lastReq = NoReq
  /\ validated = {}
  /\ terminated = {}
  /\ termEvents = [s \in SessionIds |-> 0]
  /\ consecFail = [u \in UserIds |-> 0]
  /\ lockDue = [u \in UserIds |-> Null]
  /\ auditLog = <<>>
  /\ phiReq = NoPhiReq
  /\ pending = NoPending

Init == Start(SecretChoices) /\ text = NoText /\ comment = NoComment

\* The documented deployment, which sets JWT_SECRET.
InitEnv ==
  Start({[i \in Insts |-> "env"]}) /\ text = NoText /\ comment = NoComment

\* Time passes.  A lock-expiry that has been reached is no longer awaited.
Tick(d) ==
  /\ clock + d <= MaxClock
  /\ clock' = clock + d
  /\ lockDue' = [u \in UserIds |->
                   IF lockDue[u] # Null /\ lockDue[u] <= clock + d
                   THEN Null ELSE lockDue[u]]
  /\ lastReq' = [NoReq EXCEPT !.kind = "tick"]
  /\ UNCHANGED <<users, activeSessions, jwtSecret, nextSid, issued, auth,
                 validated, terminated, termEvents, consecFail>>
  /\ UNCHANGED compliance

\* terminateSession applied to each id of a set in turn.
RECURSIVE terminateAll(_, _)
terminateAll(reg, ids) ==
  IF ids = {} THEN reg
  ELSE LET s == SetMin(ids)
       IN  terminateAll(terminateSession(reg, s).reg, ids \ {s})

\* The ids of ids for which terminateSession logs SESSION_TERMINATED.
terminatedBy(reg, ids) == {s \in ids : terminateSession(reg, s).event}

\* cleanupExpiredSessions, run by the interval timer of manager i.
Sweep(i) ==
  LET reg == activeSessions[i]
      ids == expiredIds(reg, clock)
  IN  /\ activeSessions' = [activeSessions EXCEPT ![i] = terminateAll(reg, ids)]
      /\ terminated' = terminated \cup terminatedBy(reg, ids)
      /\ termEvents' = [s \in SessionIds |->
                          IF s \in terminatedBy(reg, ids)
                          THEN termEvents[s] + 1 ELSE termEvents[s]]
      /\ lastReq' = [NoReq EXCEPT !.kind = "sweep", !.inst = i,
                       !.regChanged = (terminateAll(reg, ids) # reg)]
      /\ UNCHANGED <<clock, users, jwtSecret, nextSid, issued, auth,
                     validated, consecFail, lockDue>>
      /\ UNCHANGED compliance


\* ------------------------------------------------------------------- login
\* POST /auth/login with the audit call of its validation branch left out.
loginAuditQuiet(result, userId, username, error, sid) ==
  IF result = "VALIDATION_FAILED" THEN <<>>
  ELSE IF result = "FAILED"
  THEN << logAuthentication("UNKNOWN", "LOGIN", "FAILED",
                            Prop("username", Scalar(Opaque(username)))
                            @@ Prop("error", Scalar(Opaque(error)))) >>
  ELSE << logAuthentication(ToString(userId), "LOGIN", "SUCCESS",
                            Prop("username", Scalar(Opaque(username)))
                            @@ Prop("sessionId", Scalar(Opaque(ToString(sid))))
                            @@ Prop("mustChangePassword",
                                    Scalar(Opaque("flag")))) >>

\* POST /auth/login: the entries its logAuthentication calls hand to the
\* audit logger, by outcome.  A null userId is written as 'UNKNOWN'.
loginAudit(result, userId, username, error, sid) ==
  IF result = "VALIDATION_FAILED"
  THEN << logAuthentication("UNKNOWN", "LOGIN", "VALIDATION_FAILED",
                            EmptyJson) >>
  ELSE IF result = "FAILED"
  THEN << logAuthentication("UNKNOWN", "LOGIN", "FAILED",
                            Prop("username", Scalar(Opaque(username)))
                            @@ Prop("error", Scalar(Opaque(error)))) >>
  ELSE << logAuthentication(ToString(userId), "LOGIN", "SUCCESS",
                            Prop("username", Scalar(Opaque(username)))
                            @@ Prop("sessionId", Scalar(Opaque(ToString(sid))))
                            @@ Prop("mustChangePassword",
                                    Scalar(Opaque("flag")))) >>

\* POST /auth/login up to the await of bcrypt.compare.  An empty username
\* fails the route's validators (400).  Unknown, locked and disabled
\* accounts are answered at once; otherwise the request waits in slot sl
\* with the verdict bcrypt.compare will deliver on the secret and the hash
\* it was handed.
LoginStart(sl, name, secret, ip) ==
  LET pre == authPrecheck(users, name, clock)
      id  == findUser(users, name)
      u   == users[id]
      due == id # 0 /\ lockDue[id] # Null /\ clock < lockDue[id]
      obs == [NoReq EXCEPT
                !.inst = "auth", !.user = id, !.existed = (id # 0),
                !.wasActive = (id # 0 /\ u.isActive),
                !.wasLocked = (id # 0 /\ u.lockedUntil # Null
                                       /\ clock < u.lockedUntil),
                !.activeNow = (id # 0 /\ u.isActive),
                !.lockedNow = (id # 0 /\ u.lockedUntil # Null
                                       /\ clock < u.lockedUntil),
                !.dueAtStart = due]
  IN  /\ auth[sl].pc = "idle"
      /\ IF name = ""
         THEN /\ lastReq' = [NoReq EXCEPT
                  !.kind = "login", !.inst = "auth", !.status = 400,
                  !.error = "Validation failed",
                  !.audit = <<"AUTHENTICATION/LOGIN/VALIDATION_FAILED">>,
                  !.entries = loginAudit("VALIDATION_FAILED", 0, name, "", 0)]
              /\ auth' = auth
         ELSE IF pre # "compare"
         THEN /\ lastReq' = [obs EXCEPT
                  !.kind = "login", !.status = 401, !.error = pre,
                  !.audit = <<"AUTHENTICATION/LOGIN/FAILED">>,
                  !.entries = loginAudit("FAILED", 0, name, pre, 0)]
              /\ auth' = auth
         ELSE /\ lastReq' = [obs EXCEPT !.kind = "loginStart"]
              /\ auth' = [auth EXCEPT ![sl] =
                   [pc |-> "compare", userId |-> id, username |-> name,
                    valid |-> bcryptCompare(secret, u.password), ip |-> ip,
                    wasActive |-> obs.wasActive, wasLocked |-> obs.wasLocked,
                    dueAtStart |-> due]]
      /\ UNCHANGED <<clock, users, activeSessions, jwtSecret, nextSid,
                     issued, validated, terminated, termEvents, consecFail,
                     lockDue>>
      /\ UNCHANGED compliance

\* POST /auth/login from the return of bcrypt.compare on: the failure or
\* the success is recorded in the user record, saveUsers writes the file
\* (saveOk: the write succeeds; a failed write throws and authenticateUser
\* answers 'Authentication failed'), and on success createSession stores a
\* session in the auth router's manager and signs its token.
LoginFinish(sl, saveOk) ==
  LET a   == auth[sl]
      id  == a.userId
      u   == users[id]
      sid == nextSid + 1
      ok  == a.valid /\ saveOk
      obs == [NoReq EXCEPT
                !.kind = "login", !.inst = "auth", !.user = id,
                !.existed = TRUE, !.wasActive = a.wasActive,
                !.wasLocked = a.wasLocked, !.matched = a.valid,
                !.activeNow = u.isActive,
                !.lockedNow = (u.lockedUntil # Null /\ clock < u.lockedUntil),
                !.dueAtStart = a.dueAtStart, !.usersChanged = TRUE]
  IN  /\ a.pc = "compare"
      /\ ~a.valid => u.loginAttempts < MaxAttempts
      /\ ok => nextSid < MaxSessions
      /\ auth' = [auth EXCEPT ![sl] = IdleSlot]
      /\ users' = [users EXCEPT ![id] =
                     IF a.valid THEN handleSuccessfulLogin(u)
                     ELSE handleFailedLogin(u, clock)]
      /\ consecFail' = [consecFail EXCEPT ![id] =
                          IF a.valid THEN 0 ELSE @ + 1]
      /\ lockDue' = [lockDue EXCEPT ![id] =
                       IF ~a.valid /\ consecFail[id] + 1 >= lockThreshold
                       THEN clock + lockMinutes ELSE @]
      /\ IF ok
         THEN /\ activeSessions' = [activeSessions EXCEPT !["auth"] =
                   @ @@ (sid :> newSession(sid, id, u, clock, a.ip))]
              /\ issued' = issued @@
                   (sid :> signToken(sid, id, u.email, clock, jwtSecret["auth"]))
              /\ nextSid' = sid
              /\ lastReq' = [obs EXCEPT
                   !.status = 200, !.sid = sid, !.regChanged = TRUE,
                   !.returned = <<userInfo(handleSuccessfulLogin(u))>>,
                   !.audit = <<"SECURITY/SESSION_CREATED",
                               "AUTHENTICATION/LOGIN/SUCCESS">>,
                   !.entries = loginAudit("SUCCESS", id, u.username, "", sid)]
         ELSE /\ lastReq' = [obs EXCEPT
                   !.status = 401,
                   !.error = IF saveOk THEN "Invalid credentials"
                             ELSE "Authentication failed",
                   !.audit = <<"AUTHENTICATION/LOGIN/FAILED">>,
                   !.entries = loginAudit("FAILED", 0, a.username,
                                          IF saveOk THEN "Invalid credentials"
                                          ELSE "Authentication failed", 0)]
              /\ UNCHANGED <<activeSessions, issued, nextSid>>
      /\ UNCHANGED <<clock, jwtSecret, validated, terminated, termEvents>>
      /\ UNCHANGED compliance


\* ---------------------------------------------------------------- requests
\* The parts of a request body or path the handlers read.
NoBody ==
  [username |-> "", email |-> "", password |-> "", role |-> "user",
   userId |-> 0, activate |-> FALSE, currentPassword |-> "",
   newPassword |-> "", updates |-> <<>>, upstreamOk |-> TRUE,
   saved |-> TRUE]

\* What a handler does once the middleware chain has let the request
\* through: the user store and the registry of its manager afterwards, the
\* status it answers, the audit events it logs, and the id it handed to
\* terminateSession (0: none), and the user snapshots the user service
\* returned, which the route puts in its response.  s is req.session.
handler(name, s, us, reg, b) ==
  LET same == [us |-> us, reg |-> reg, term |-> 0]
      none == [returned |-> <<>>]
  IN
  IF name = "POST /auth/logout"
  THEN [us |-> us, reg |-> terminateSession(reg, s.id).reg, term |-> s.id,
        status |-> 200, audit |-> <<"AUTHENTICATION/LOGOUT/SUCCESS">>,
        returned |-> <<>>]
  ELSE IF name = "GET /auth/me"
  THEN same @@ [status |-> IF s.userId \in DOMAIN us THEN 200 ELSE 404,
                audit |-> <<>>,
                returned |-> IF s.userId \in DOMAIN us
                             THEN <<userInfo(us[s.userId])>> ELSE <<>>]
  ELSE IF name = "POST /auth/change-password"
  THEN IF b.currentPassword = "" \/ SecretShape(b.newPassword).len < 8
       THEN same @@ none @@ [status |-> 400, audit |-> <<>>]
       ELSE LET r == changePassword(us, s.userId, b.currentPassword,
                                    b.newPassword, b.saved)
            IN  [us |-> r.us, reg |-> reg, term |-> 0, returned |-> <<>>,
                 status |-> IF r.error = "" THEN 200 ELSE 400,
                 audit |-> IF r.error = ""
                           THEN <<"AUTHENTICATION/PASSWORD_CHANGE/SUCCESS">>
                           ELSE <<"AUTHENTICATION/PASSWORD_CHANGE/FAILED">>]
  ELSE IF name = "POST /auth/update-profile"
  THEN IF "email" \in DOMAIN b.updates /\ ~isValidEmail(b.updates["email"])
       THEN same @@ none @@ [status |-> 400, audit |-> <<>>]
       ELSE LET r == updateUserProfile(us, s.userId, b.updates)
            IN  [us |-> r.us, reg |-> reg, term |-> 0,
                 returned |-> IF r.error = ""
                              THEN <<userInfo(r.us[s.userId])>> ELSE <<>>,
                 status |-> IF r.error = "" THEN 200 ELSE 400,
                 audit |-> <<"DATA_MODIFICATION/UPDATE/USER_PROFILE">>]
  ELSE IF name = "GET /auth/session-status"
  THEN same @@ none @@ [status |-> 200, audit |-> <<>>]
  ELSE IF name = "GET /auth/admin/users"
  THEN same @@ [status |-> 200, audit |-> <<"ACCESS/VIEW/ALL_USERS">>,
                returned |-> getAllUsers(us)]
  ELSE IF name = "POST /auth/admin/users"
  THEN IF b.username = "" \/ ~isValidEmail(b.email)
          \/ SecretShape(b.password).len < 8
          \/ b.role \notin {"admin", "user"}
       THEN same @@ none @@ [status |-> 400, audit |-> <<>>]
       ELSE LET r == createUser(us, b.username, b.email, b.password, b.role)
            IN  [us |-> r.us, reg |-> reg, term |-> 0,
                 returned |-> IF r.error = ""
                              THEN <<userInfo(r.us[freshUserId(us)])>>
                              ELSE <<>>,
                 status |-> IF r.error = "" THEN 201 ELSE 400,
                 audit |-> <<"DATA_MODIFICATION/CREATE/USER">>]
  ELSE IF name = "PUT /auth/admin/users/:userId/activate"
  THEN LET r == IF b.activate THEN activateUser(us, b.userId)
                ELSE deactivateUser(us, b.userId)
       IN  [us |-> r.us, reg |-> reg, term |-> 0, returned |-> <<>>,
            status |-> IF r.ok THEN 200 ELSE 400,
            audit |-> IF b.activate
                      THEN <<"DATA_MODIFICATION/ACTIVATE/USER">>
                      ELSE <<"DATA_MODIFICATION/DEACTIVATE/USER">>]
  ELSE IF name = "GET /auth/admin/audit-logs"
  THEN same @@ none @@ [status |-> 200, audit |-> <<"ACCESS/VIEW/AUDIT_LOGS">>]
  ELSE \* the ticket routes: one or more calls to the issue tracker
       same @@ none @@
               [status |-> IF b.upstreamOk THEN 200 ELSE 500,
                audit |-> IF b.upstreamOk THEN <<"ACCESS/JIRA">> ELSE <<>>]

\* The answer of a request and everything it changed.  code and eff are
\* validateSession's verdict and effect, out the result of the middleware
\* chain, h what the handler did (read only when the handler ran with a
\* req.session; a handler that finds req.session undefined throws, and the
\* route answers 500), b the request body, at the time validateSession ran.
Answer(route, tok, ip, code, eff, out, h, b, at) ==
  LET i     == route.inst
      reg   == activeSessions[i]
      ran   == out.status = 0
      done  == ran /\ out.session # NoInfo
      reg2  == IF done THEN h.reg ELSE eff.reg
      us2   == IF done THEN h.us ELSE users
      term  == (IF eff.event THEN {tok.sid} ELSE {})
               \cup (IF done /\ h.term # 0
                        /\ terminateSession(eff.reg, h.term).event
                     THEN {h.term} ELSE {})
      has   == tok.sid \in DOMAIN reg
  IN  /\ Cardinality(DOMAIN us2) <= MaxUsers
      /\ activeSessions' = [activeSessions EXCEPT ![i] = reg2]
      /\ users' = us2
      /\ validated' = IF code = "OK" THEN validated \cup {tok.sid}
                      ELSE validated
      /\ terminated' = terminated \cup term
      /\ termEvents' = [s \in SessionIds |->
                          IF s \in term THEN termEvents[s] + 1
                          ELSE termEvents[s]]
      \* an administrator's activateUser clears the awaited lock-expiry too
      /\ consecFail' = [u \in UserIds |->
                          IF u \in DOMAIN users
                             /\ us2[u].loginAttempts < users[u].loginAttempts
                          THEN 0 ELSE consecFail[u]]
      /\ lockDue' = [u \in UserIds |->
                       IF u \in DOMAIN users
                          /\ us2[u].lockedUntil # users[u].lockedUntil
                       THEN Null ELSE lockDue[u]]
      /\ lastReq' = [NoReq EXCEPT
           !.kind = "request", !.inst = i,
           !.status = IF done THEN h.status
                      ELSE IF ran THEN 500 ELSE out.status,
           !.code = code,
           !.error = IF code \in {"OK", "SKIPPED"} THEN ""
                     ELSE handleInvalidSession(code).error,
           !.response = IF code \in {"OK", "SKIPPED"} THEN NoResponse
                        ELSE handleInvalidSession(code),
           !.handlerRan = ran,
           !.session = out.session,
           !.sid = tok.sid,
           !.genuine = (tok.sid \in DOMAIN issued /\ issued[tok.sid] = tok
                        /\ i = "auth"),
           !.issuedTok = (tok.sid \in DOMAIN issued /\ issued[tok.sid] = tok),
           !.loginAddr = (tok.sid \in DOMAIN activeSessions["auth"]
                          /\ activeSessions["auth"][tok.sid].ipAddress = ip),
           !.present = (tok.key # "none"),
           !.verified = (jwtVerify(tok, jwtSecret[i], clock) = "ok"),
           !.found = has,
           !.active = (has /\ reg[tok.sid].isActive),
           !.idleOk = (has /\ clock - reg[tok.sid].lastActivity
                                <= sessionTimeout),
           !.absOk = (has /\ clock - reg[tok.sid].createdAt
                               <= maxSessionTimeout),
           !.ipOk = (has /\ reg[tok.sid].ipAddress = ip),
           !.wasValidated = (tok.sid \in validated),
           !.wasTerminated = (tok.sid \in terminated),
           !.adminRoute = (route \in AdminRoutes),
           !.isAdmin = (has /\ reg[tok.sid].userId \in DOMAIN users
                        /\ users[reg[tok.sid].userId].role = "admin"),
           !.usersChanged = (us2 # users),
           !.regChanged = (reg2 # reg),
           !.returned = IF done THEN h.returned ELSE <<>>,
           !.updates = IF done THEN b.updates ELSE <<>>,
           !.at = at, !.ended = clock,
           !.audit = IF done THEN h.audit
                     ELSE IF out.status = 403
                     THEN <<"ACCESS/UNAUTHORIZED_ADMIN_ACCESS/DENIED">>
                     ELSE <<>>]
      /\ UNCHANGED <<clock, jwtSecret, nextSid, issued, auth>>

\* A request answered within one step.
Respond(route, tok, ip, code, eff, out, h, b) ==
  /\ Answer(route, tok, ip, code, eff, out, h, b, clock)
  /\ UNCHANGED compliance

\* The middleware chain of the route, then its handler.
Dispatch(route, tok, ip, inputOk, b, code, eff, out) ==
  Respond(route, tok, ip, code, eff, out,
          handler(route.name, out.session, users, eff.reg, b), b)

\* validateSession has given its verdict: its effect on the registry and
\* the req.session it attaches.
Gate(route, tok, ip, inputOk, b, code) ==
  Dispatch(route, tok, ip, inputOk, b, code,
           validateEffect(activeSessions[route.inst], code, tok.sid, clock),
           runChain(route.chain, 1, code,
                    IF code = "OK"
                    THEN sessionInfo(activeSessions[route.inst][tok.sid])
                    ELSE NoInfo,
                    NoInfo, users, inputOk))

\* One request to a route, from its first middleware to its answer.
\* validateSession runs when the route's chain holds it.
Request(route, tok, ip, inputOk, b) ==
  Gate(route, tok, ip, inputOk, b,
       IF \E k \in 1 .. Len(route.chain) : route.chain[k] = "validateSession"
       THEN validateSession(activeSessions[route.inst],
                            jwtSecret[route.inst], tok, ip, clock)
       ELSE "SKIPPED")

\* SessionManager.terminateSession called directly with any id.
TerminateCall(i, sid) ==
  LET r == terminateSession(activeSessions[i], sid)
  IN  /\ activeSessions' = [activeSessions EXCEPT ![i] = r.reg]
      /\ terminated' = IF r.event THEN terminated \cup {sid} ELSE terminated
      /\ termEvents' = [termEvents EXCEPT ![sid] =
                          IF r.event THEN @ + 1 ELSE @]
      /\ lastReq' = [NoReq EXCEPT
           !.kind = "terminateSession", !.inst = i, !.sid = sid,
           !.wasTerminated = (sid \in terminated),
           !.regChanged = (r.reg # activeSessions[i]),
           !.audit = IF r.event THEN <<"SECURITY/SESSION_TERMINATED">>
                     ELSE <<>>]
      /\ UNCHANGED <<clock, users, jwtSecret, nextSid, issued, auth,
                     validated, consecFail, lockDue>>
      /\ UNCHANGED compliance


\* ---------------------------------------------------------- specifications
\* The tokens a client can present: none, a forged one, or any token a
\* login has returned (tokens outlive their sessions).
Tokens == {NoToken, ForgedToken} \cup {issued[s] : s \in DOMAIN issued}

\* The secret an account's owner types.
OwnSecret(name) == IF name = "admin" THEN AdminSecret ELSE BobSecret

RouteNamed(n) == CHOOSE r \in Routes : r.name = n

\* Whether the parameters pass the validators matters only to a chain that
\* holds handleValidationErrors.
InputChoices(route) ==
  IF \E k \in 1 .. Len(route.chain) : route.chain[k] = "handleValidationErrors"
  THEN BOOLEAN ELSE {TRUE}

\* Session life cycle: logins that succeed, requests to the routes whose
\* handlers leave the user store alone, logouts, sweeps, the clock.
SessionRoutes ==
  { RouteNamed("POST /auth/logout"), RouteNamed("GET /auth/me"),
    RouteNamed("GET /auth/session-status"), RouteNamed("GET /api/jira/user"),
    RouteNamed("GET /api/jira/tickets/assigned") }

Next ==
  \/ \E d \in TickSteps : Tick(d)
  \/ LoginStart(1, "bob", BobSecret, "ip1")
  \/ LoginFinish(1, TRUE)
  \/ \E route \in SessionRoutes, tok \in Tokens, ip \in IPs :
       \E inputOk \in InputChoices(route) :
         Request(route, tok, ip, inputOk, NoBody)
  \/ \E i \in Insts : Sweep(i)

Spec == Init /\ [][Next]_vars

\* The same with terminateSession also called directly, on any id.
NextApi ==
  \/ Next
  \/ \E i \in Insts, sid \in SessionIds : TerminateCall(i, sid)

SpecApi == InitEnv /\ [][NextApi]_vars

\* The middleware of every guarded route, with either account signed in
\* under its current secret, and the request bodies the handlers act on.
Bodies(route) ==
  IF route.name = "POST /auth/change-password"
  THEN { [NoBody EXCEPT !.currentPassword = WrongSecret, !.newPassword = n] :
           n \in {AdminSecret, WrongSecret} }
  ELSE IF route.name = "POST /auth/update-profile"
  THEN { [NoBody EXCEPT !.updates = u] :
           u \in { "email" :> "admin@localhost", "role" :> "admin" } }
  ELSE IF route.name = "POST /auth/admin/users"
  THEN { [NoBody EXCEPT !.username = "eve", !.email = "eve@example.com",
                        !.password = pw] : pw \in {BobSecret, WrongSecret} }
  ELSE IF route.name = "PUT /auth/admin/users/:userId/activate"
  THEN { [NoBody EXCEPT !.userId = id, !.activate = on] :
           id \in {1, 2}, on \in BOOLEAN }
  ELSE {NoBody}

NextGate ==
  \/ \E name \in {"admin", "bob"} :
       LoginStart(1, name, OwnSecret(name), "ip1")
  \/ LoginFinish(1, TRUE)
  \/ \E route \in Routes, tok \in Tokens, ip \in IPs :
       \E inputOk \in InputChoices(route), b \in Bodies(route) :
         Request(route, tok, ip, inputOk, b)

SpecGate == InitEnv /\ [][NextGate]_vars

\* Logins: any account name with a right or a wrong secret, several in
\* flight at once, file writes that may fail, an administrator who
\* deactivates and reactivates the account, the clock.
LoginInputs ==
  { <<"bob", BobSecret>>, <<"bob", WrongSecret>>,
    <<"bob@example.com", WrongSecret>>, <<"mallory", WrongSecret>>,
    <<"admin", AdminSecret>>, <<"", WrongSecret>> }

NextAuth ==
  \/ Tick(lockMinutes)
  \/ \E sl \in Slots, in \in LoginInputs :
       LoginStart(sl, in[1], in[2], "ip1")
  \/ \E sl \in Slots, saveOk \in BOOLEAN : LoginFinish(sl, saveOk)
  \/ \E tok \in Tokens, on \in BOOLEAN :
       Request(RouteNamed("PUT /auth/admin/users/:userId/activate"), tok,
               "ip1", TRUE, [NoBody EXCEPT !.userId = 2, !.activate = on])

SpecAuth == InitEnv /\ [][NextAuth]_vars

\* writeAuditLog whose catch block reports the error and throws it again.
writeAuditLogThrowing(auditEntry, appendOk) ==
  IF appendOk
  THEN [file |-> <<auditEntry>>, console |-> <<>>, rejected |-> FALSE]
  ELSE [file |-> <<>>, console |-> <<>>, rejected |-> TRUE]

\* writeAuditLog: the entry is appended to the day's file (no encryption
\* key is set, so as JSON); when fs.appendFile fails (appendOk = FALSE) the
\* catch block prints it after 'AUDIT_FALLBACK:'.  rejected: the promise the
\* async function returned, which no caller awaits, rejects.
writeAuditLog(auditEntry, appendOk) ==
  IF appendOk
  THEN [file |-> <<auditEntry>>, console |-> <<>>, rejected |-> FALSE]
  ELSE [file |-> <<>>, console |-> <<auditEntry>>, rejected |-> FALSE]

\* writeAuditLog applied to each entry of a sequence in turn.
RECURSIVE writeAll(_, _)
writeAll(es, appendOk) ==
  IF es = <<>>
  THEN [file |-> <<>>, console |-> <<>>, rejected |-> FALSE]
  ELSE LET w == writeAuditLog(Head(es), appendOk)
           r == writeAll(Tail(es), appendOk)
       IN  [file |-> w.file \o r.file, console |-> w.console \o r.console,
            rejected |-> w.rejected \/ r.rejected]

\* The appendFile calls begun by the login just answered settle.  The route
\* did not await them: its answer was sent with the write outstanding.
WriteAudit(appendOk) ==
  /\ lastReq.kind = "login"
  /\ lastReq.entries # <<>>
  /\ ~lastReq.written
  /\ \E w \in {writeAll(lastReq.entries, appendOk)} :
       lastReq' = [lastReq EXCEPT !.written = TRUE, !.appendOk = appendOk,
                                  !.filed = w.file, !.fallback = w.console,
                                  !.rejected = w.rejected]
  /\ UNCHANGED <<clock, users, activeSessions, jwtSecret, nextSid, issued,
                 auth, validated, terminated, termEvents, consecFail,
                 lockDue>>
  /\ UNCHANGED compliance

\* Logins one at a time: every input of the login route, the write of the
\* user file succeeding or failing, the append to the audit file succeeding
\* or failing, the lock running out, and an administrator switching the
\* account off and on.
NextLogin ==
  \/ Tick(lockMinutes)
  \/ \E in \in LoginInputs : LoginStart(1, in[1], in[2], "ip1")
  \/ \E saveOk \in BOOLEAN : LoginFinish(1, saveOk)
  \/ \E appendOk \in BOOLEAN : WriteAudit(appendOk)
  \/ \E tok \in Tokens, on \in BOOLEAN :
       Request(RouteNamed("PUT /auth/admin/users/:userId/activate"), tok,
               "ip1", TRUE, [NoBody EXCEPT !.userId = 2, !.activate = on])

SpecLogin == InitEnv /\ [][NextLogin]_vars

\* User management: either account signed in under its current secret, and
\* the requests that read or change the user store, with bodies that pass
\* and bodies that fail each handler's checks.
UserRoutes ==
  { RouteNamed("GET /auth/me"), RouteNamed("POST /auth/change-password"),
    RouteNamed("POST /auth/update-profile"),
    RouteNamed("GET /auth/admin/users"), RouteNamed("POST /auth/admin/users"),
    RouteNamed("PUT /auth/admin/users/:userId/activate") }

ProfileUpdates ==
  { "email" :> "bob@example.com", "email" :> "eve@example.com",
    "email" :> "admin@localhost", "preferences" :> "dark",
    "role" :> "admin",
    ("email" :> "eve@example.com") @@ ("role" :> "admin") }

UserBodies(route) ==
  IF route.name = "POST /auth/change-password"
  THEN { [NoBody EXCEPT !.currentPassword = c, !.newPassword = n,
                        !.saved = saved] :
           c \in Secrets \cup {""}, n \in Secrets, saved \in BOOLEAN }
  ELSE IF route.name = "POST /auth/update-profile"
  THEN { [NoBody EXCEPT !.updates = u] : u \in ProfileUpdates }
  ELSE IF route.name = "POST /auth/admin/users"
  THEN { [NoBody EXCEPT !.username = n, !.email = "eve@example.com",
                        !.password = pw] :
           n \in {"eve", "bob"}, pw \in {BobSecret, WrongSecret} }
  ELSE IF route.name = "PUT /auth/admin/users/:userId/activate"
  THEN { [NoBody EXCEPT !.userId = id, !.activate = on] :
           id \in {1, 2}, on \in BOOLEAN }
  ELSE {NoBody}

NextUsers ==
  \/ \E name \in {"admin", "bob"}, secret \in Secrets :
       /\ bcryptCompare(secret, users[findUser(users, name)].password)
       /\ LoginStart(1, name, secret, "ip1")
  \/ LoginFinish(1, TRUE)
  \/ \E route \in UserRoutes, tok \in Tokens :
       \E inputOk \in InputChoices(route), b \in UserBodies(route) :
         Request(route, tok, "ip1", inputOk, b)

SpecUsers == InitEnv /\ [][NextUsers]_vars

\* The audit logger: every kind of audit call, on requests and values that
\* do and do not hold sensitive data, under listed and unlisted names.
HelloText == <<"h", "i">>
SsnText == <<"1", "2", "3", "-", "4", "5", "-", "6", "7", "8", "9">>
MailText == <<"a", "@", "b", ".", "c", "o">>

Payloads ==
  { EmptyJson, NullJson,
    Prop("comment", Scalar(HelloText)), Prop("comment", Scalar(SsnText)),
    Prop("ssn", Scalar(SsnText)), Prop("email", Scalar(MailText)),
    Prop("patient", Prop("ssn", Scalar(SsnText))
                    @@ Prop("note", Scalar(SsnText))) }

Objects == Payloads \ {NullJson}
Actors == {"ANONYMOUS", "u1"}

\* AuditLogger.middleware: the entry written when a request arrives.
AuditRequest(userId, query, body) ==
  /\ auditLog' = << logAccess(userId, "REQUEST", "POST /api", "STARTED",
                              Prop("query", sanitizeForAudit(query))
                              @@ Prop("body", sanitizeForAudit(body))) >>
  /\ UNCHANGED <<service, phiReq, text, comment, pending>>

\* AuditLogger.middleware: the entry written when res.end is called.
AuditResponse(userId, statusCode) ==
  /\ auditLog' = << logAccess(userId, "REQUEST", "POST /api", "COMPLETED",
                              Prop("statusCode", Scalar(Opaque(statusCode)))
                              @@ Prop("responseTime", Scalar(Opaque("1")))) >>
  /\ UNCHANGED <<service, phiReq, text, comment, pending>>

\* A route's logDataModification call.
AuditDataModification(userId, oldValues, newValues) ==
  /\ auditLog' = << logDataModification(userId, "UPDATE", "USER_PROFILE",
                                        oldValues, newValues) >>
  /\ UNCHANGED <<service, phiReq, text, comment, pending>>

\* The login route's logAuthentication call, with the username typed.
AuditAuthentication(userId, result, username) ==
  /\ auditLog' = << logAuthentication(userId, "LOGIN", result,
                                      Prop("username", Scalar(username))) >>
  /\ UNCHANGED <<service, phiReq, text, comment, pending>>

\* SessionManager and others: logSecurityEvent.
AuditSecurityEvent(details) ==
  /\ auditLog' = << logSecurityEvent("SESSION_CREATED", details, "INFO") >>
  /\ UNCHANGED <<service, phiReq, text, comment, pending>>

NextAudit ==
  \/ \E userId \in Actors, query \in Objects, body \in Objects :
       AuditRequest(userId, query, body)
  \/ \E userId \in Actors, statusCode \in {"200", "400"} :
       AuditResponse(userId, statusCode)
  \/ \E userId \in Actors, oldValues \in Payloads, newValues \in Payloads :
       AuditDataModification(userId, oldValues, newValues)
  \/ \E userId \in Actors, result \in {"SUCCESS", "FAILED"},
        username \in {HelloText, SsnText, MailText} :
       AuditAuthentication(userId, result, username)
  \/ \E details \in Payloads : AuditSecurityEvent(details)

SpecAudit == InitEnv /\ [][NextAudit]_vars

\* The PHI detector in front of the routes.  server.js mounts the
\* middleware only when PHI_DETECTION_ENABLED is 'true', and then with
\* blockOnDetection true; the class also takes blockOnDetection: false,
\* its redact-only mode.
PhoneText == <<"5", "5", "5", "-", "1", "2", "3", "-", "4", "5", "6", "7">>

PhiConfigs ==
  { [mounted |-> TRUE, blockOnDetection |-> TRUE],
    [mounted |-> TRUE, blockOnDetection |-> FALSE],
    [mounted |-> FALSE, blockOnDetection |-> FALSE] }

RequestObjects ==
  { EmptyJson, Prop("comment", Scalar(HelloText)),
    Prop("comment", Scalar(SsnText)), Prop("q", Scalar(PhoneText)),
    Prop("email", Scalar(MailText)),
    Prop("patient", Prop("ssn", Scalar(SsnText))
                    @@ Prop("note", Scalar(HelloText))) }

\* express.json / the query parser have filled req.body and req.query.
Receive(body, query) ==
  /\ phiReq' = [NoPhiReq EXCEPT !.phase = "parsed", !.rawBody = body,
                                !.rawQuery = query, !.body = body,
                                !.query = query]
  /\ UNCHANGED <<service, auditLog, text, comment, pending>>

\* The request passes the place of the PHI middleware and, unless the
\* middleware answered it, reaches its handler.
Scan(cfg) ==
  LET r == IF cfg.mounted
           THEN phiMiddleware(cfg.blockOnDetection, phiReq.body, phiReq.query)
           ELSE [status |-> 0, code |-> "", body |-> phiReq.body,
                 query |-> phiReq.query, phiDetected |-> FALSE]
  IN  /\ phiReq.phase = "parsed"
      /\ phiReq' = [phiReq EXCEPT
           !.phase = "done", !.mounted = cfg.mounted,
           !.blockOnDetection = cfg.blockOnDetection,
           !.status = r.status, !.code = r.code, !.body = r.body,
           !.query = r.query, !.phiDetected = r.phiDetected,
           !.handlerRan = (r.status = 0)]
      /\ UNCHANGED <<service, auditLog, text, comment, pending>>

NextPhi ==
  \/ \E body \in RequestObjects, query \in RequestObjects :
       Receive(body, query)
  \/ \E cfg \in PhiConfigs : Scan(cfg)

SpecPhi == InitEnv /\ [][NextPhi]_vars

\* sanitizeText and scanForPHI on texts put together from pieces that the
\* patterns match, keywords, and characters that make or break a word
\* boundary.
CardText ==
  <<"4", "1", "1", "1", "1", "1", "1", "1", "1", "1", "1", "1", "1", "1",
    "1", "1">>
Fragments ==
  { SsnText, PhoneText, MailText, CardText, <<"m", "r", "n">>,
    <<"d", "o", "b">>, <<"1", "/", "2", "/", "2", "0">>,
    <<"1", "2", " ", "M", "a", "i", "n", " ", "S", "t">>, <<" ">>, <<"x">> }

\* The texts of at most n fragments.
RECURSIVE TextsOf(_)
TextsOf(n) ==
  IF n = 0 THEN {<<>>}
  ELSE TextsOf(n - 1) \cup { a \o f : a \in TextsOf(n - 1), f \in Fragments }

InitText ==
  /\ Start({[i \in Insts |-> "env"]})
  /\ text \in { [NoText EXCEPT !.input = t] : t \in TextsOf(MaxFragments) }
  /\ comment = NoComment

\* sanitizeText(text, {preserveLength}), then scanForPHI and sanitizeText
\* again on what it returned.
Sanitize(preserveLength) ==
  /\ text' = [input |-> text.input, preserveLength |-> preserveLength,
              sanitized |-> sanitizeText(text.input, preserveLength),
              findings |->
                scanForPHI(sanitizeText(text.input, preserveLength)).findings,
              again |->
                sanitizeText(sanitizeText(text.input, preserveLength),
                             preserveLength),
              done |-> TRUE]
  /\ UNCHANGED <<service, auditLog, phiReq, comment, pending>>

NextText == \E preserveLength \in BOOLEAN : Sanitize(preserveLength)

SpecText == InitText /\ [][NextText]_vars

\* getSessionStats: activeSessions.size of the manager asked.
getSessionStats(reg) == Cardinality(DOMAIN reg)

\* GET /health: no middleware guards it; it answers with the statistics of
\* the session manager server.js constructs.
Health ==
  /\ lastReq' = [NoReq EXCEPT
       !.kind = "health", !.inst = "server", !.status = 200,
       !.sessions = getSessionStats(activeSessions["server"])]
  /\ UNCHANGED <<clock, users, activeSessions, jwtSecret, nextSid, issued,
                 auth, validated, terminated, termEvents, consecFail,
                 lockDue>>
  /\ UNCHANGED compliance

\* The session life cycle with the health check asked at any time.
NextHealth ==
  \/ Next
  \/ Health

SpecHealth == InitEnv /\ [][NextHealth]_vars

\* A guarded request in two steps, so that time passes while its handler
\* awaits.  First validateSession: a request it rejects is answered at once;
\* one it accepts has lastActivity refreshed and req.session attached, and
\* the rest of the chain and the handler are yet to run.
Arrive(route, tok, ip) ==
  /\ ~pending.active
  /\ \E code \in {validateSession(activeSessions[route.inst],
                                  jwtSecret[route.inst], tok, ip, clock)} :
       IF code # "OK"
       THEN Gate(route, tok, ip, TRUE, NoBody, code)
       ELSE /\ activeSessions' =
                 [activeSessions EXCEPT ![route.inst] =
                    validateEffect(@, code, tok.sid, clock).reg]
            /\ validated' = validated \cup {tok.sid}
            /\ pending' =
                 [active |-> TRUE, route |-> route.name, tok |-> tok,
                  ip |-> ip, at |-> clock,
                  session |->
                    sessionInfo(activeSessions[route.inst][tok.sid])]
            /\ lastReq' = [NoReq EXCEPT !.kind = "validated",
                                        !.inst = route.inst,
                                        !.sid = tok.sid, !.at = clock]
            /\ UNCHANGED <<clock, users, jwtSecret, nextSid, issued, auth,
                           terminated, termEvents, consecFail, lockDue,
                           auditLog, phiReq, text, comment>>

\* Then the rest of the chain and the handler, with req.session as attached
\* and the stores as they are by now, and the answer.
Complete(inputOk, b) ==
  /\ pending.active
  /\ \E route \in {RouteNamed(pending.route)} :
       \E out \in {runChain(route.chain, 1, "OK", pending.session, NoInfo,
                            users, inputOk)} :
         Answer(route, pending.tok, pending.ip, "OK",
                [reg |-> activeSessions[route.inst], event |-> FALSE], out,
                handler(route.name, out.session, users,
                        activeSessions[route.inst], b),
                b, pending.at)
  /\ pending' = NoPending
  /\ UNCHANGED <<auditLog, phiReq, text, comment>>

\* Requests that await: the profile update (saveUsers), the logout, the
\* ticket search (two calls of the issue tracker), and one that does not.
AwaitingRoutes ==
  { RouteNamed("GET /auth/me"), RouteNamed("POST /auth/update-profile"),
    RouteNamed("POST /auth/logout"),
    RouteNamed("GET /api/jira/tickets/assigned") }

NextRefresh ==
  \/ \E d \in TickSteps : Tick(d)
  \/ LoginStart(1, "bob", BobSecret, "ip1")
  \/ LoginFinish(1, TRUE)
  \/ \E route \in AwaitingRoutes, tok \in Tokens, ip \in IPs :
       Arrive(route, tok, ip)
  \/ \E inputOk \in BOOLEAN, upstreamOk \in BOOLEAN,
        u \in {<<>>, "email" :> "eve@example.com",
               "email" :> "admin@localhost"} :
       Complete(inputOk, [NoBody EXCEPT !.upstreamOk = upstreamOk,
                                        !.updates = u])
  \/ \E i \in Insts : Sweep(i)

SpecRefresh == InitEnv /\ [][NextRefresh]_vars

\* ------------------------------------------------------- comment checks
\* String.prototype.trim: the text without its leading and trailing
\* whitespace.
trim(t) ==
  IF \A k \in DOMAIN t : t[k] \in SpaceChars THEN <<>>
  ELSE SubSeq(t,
              CHOOSE a \in DOMAIN t :
                /\ t[a] \notin SpaceChars
                /\ \A k \in 1 .. a - 1 : t[k] \in SpaceChars,
              CHOOSE b \in DOMAIN t :
                /\ t[b] \notin SpaceChars
                /\ \A k \in b + 1 .. Len(t) : t[k] \in SpaceChars)

\* validateComment's chain of replace calls on one character: < and > are
\* replaced before &, so the & of their entities is replaced again.
escapeChar(c) ==
  CASE c = "<" -> "&amp;lt;"
    [] c = ">" -> "&amp;gt;"
    [] c = "&" -> "&amp;"
    [] c = "\"" -> "&quot;"
    [] c = "'" -> "&#x27;"
    [] c = "/" -> "&#x2F;"
    [] OTHER -> c

\* validateComment (backend/utils/validation.js) on a string: the error, or
\* "ok" with the sanitized text (one piece per character of the trimmed
\* comment).
validateComment(c) ==
  CHOOSE out \in
    { IF Len(trimmed) = 0
      THEN [error |-> "Comment cannot be empty", sanitized |-> <<>>]
      ELSE IF Len(trimmed) > maxCommentLength
      THEN [error |-> "Comment too long (max 2000 characters)",
            sanitized |-> <<>>]
      ELSE [error |-> "ok",
            sanitized |-> [k \in 1 .. Len(trimmed) |->
                             escapeChar(trimmed[k])]] :
        trimmed \in {trim(c)} } : TRUE

\* JiraService.addComment (src/services/authService.js): the error thrown
\* by the client-side check, or "ok" with the comment posted.
addComment(c) ==
  IF Len(c) = 0 \/ Len(trim(c)) = 0
  THEN [error |-> "Comment cannot be empty", sent |-> <<>>]
  ELSE IF Len(c) > maxCommentLength
  THEN [error |-> "Comment too long (max 2000 characters)", sent |-> <<>>]
  ELSE [error |-> "ok", sent |-> trim(c)]

\* The comments typed: none to MaxPad blanks, then nothing, one character or
\* a text whose length is at the limit or next to it, then none to MaxPad
\* blanks.
Blanks(n) == [k \in 1 .. n |-> " "]
Letters(first, n) == [k \in 1 .. n |-> IF k = 1 THEN first ELSE "a"]
Comments ==
  { IF n = 0 THEN Blanks(l) \o Blanks(t)
    ELSE Blanks(l) \o Letters(first, n) \o Blanks(t) :
      l \in 0 .. MaxPad, t \in 0 .. MaxPad, first \in {"a", "<"},
      n \in {0, 1} \cup (maxCommentLength - 1 .. maxCommentLength + 1) }

InitComment ==
  /\ Start({[i \in Insts |-> "env"]})
  /\ text = NoText
  /\ comment \in { [NoComment EXCEPT !.input = c] : c \in Comments }

\* The server validates the comment as received.
ValidateComment ==
  /\ comment.server = "none"
  /\ \E r \in {validateComment(comment.input)} :
       comment' = [comment EXCEPT !.server = r.error,
                                  !.sanitized = r.sanitized]
  /\ UNCHANGED <<service, auditLog, phiReq, text, pending>>

\* The client checks the comment as typed.
AddComment ==
  /\ comment.client = "none"
  /\ \E r \in {addComment(comment.input)} :
       comment' = [comment EXCEPT !.client = r.error, !.sent = r.sent]
  /\ UNCHANGED <<service, auditLog, phiReq, text, pending>>

NextComment ==
  \/ ValidateComment
  \/ AddComment

SpecComment == InitComment /\ [][NextComment]_vars

\* changePassword called on its own: for a stored and for an unknown user
\* id, with the right and a wrong current secret, new secrets that meet and
\* that break the policy, and a users file that can and cannot be written.
ChangePassword(id, currentPassword, newPassword, saved) ==
  /\ users' = changePassword(users, id, currentPassword, newPassword,
                             saved).us
  /\ lastReq' = [NoReq EXCEPT
       !.kind = "changePassword", !.user = id,
       !.existed = (id \in DOMAIN users),
       !.matched = /\ id \in DOMAIN users
                   /\ bcryptCompare(currentPassword, users[id].password),
       !.secret = newPassword, !.saved = saved,
       !.error = changePassword(users, id, currentPassword, newPassword,
                                saved).error,
       !.usersChanged =
         (changePassword(users, id, currentPassword, newPassword,
                         saved).us # users)]
  /\ UNCHANGED <<clock, activeSessions, jwtSecret, nextSid, issued, auth,
                 validated, terminated, termEvents, consecFail, lockDue>>
  /\ UNCHANGED compliance

NextPassword ==
  \E id \in 1 .. MaxUsers, currentPassword \in Secrets,
     newPassword \in NewSecrets, saved \in BOOLEAN :
    ChangePassword(id, currentPassword, newPassword, saved)

SpecPassword == InitEnv /\ [][NextPassword]_vars

\* userService.deactivateUser and activateUser called for a user id, as the
\* activate route calls them for an administrator.
DeactivateUser(id) ==
  /\ users' = deactivateUser(users, id).us
  /\ lastReq' = [NoReq EXCEPT
       !.kind = "deactivateUser", !.user = id,
       !.existed = (id \in DOMAIN users),
       !.wasActive = (id \in DOMAIN users /\ users[id].isActive),
       !.returned = <<deactivateUser(users, id).ok>>,
       !.usersChanged = (deactivateUser(users, id).us # users)]
  /\ UNCHANGED <<clock, activeSessions, jwtSecret, nextSid, issued, auth,
                 validated, terminated, termEvents, consecFail, lockDue>>
  /\ UNCHANGED compliance

ActivateUser(id) ==
  /\ users' = activateUser(users, id).us
  /\ lastReq' = [NoReq EXCEPT
       !.kind = "activateUser", !.user = id,
       !.existed = (id \in DOMAIN users),
       !.wasActive = (id \in DOMAIN users /\ users[id].isActive),
       !.returned = <<activateUser(users, id).ok>>,
       !.usersChanged = (activateUser(users, id).us # users)]
  /\ UNCHANGED <<clock, activeSessions, jwtSecret, nextSid, issued, auth,
                 validated, terminated, termEvents, consecFail, lockDue>>
  /\ UNCHANGED compliance

\* An account is switched off and on while its owner logs in and uses the
\* session: logins one at a time, requests that read the account, the
\* clock and the sweep.
NextAccess ==
  \/ \E d \in TickSteps : Tick(d)
  \/ LoginStart(1, "bob", BobSecret, "ip1")
  \/ LoginFinish(1, TRUE)
  \/ \E name \in {"GET /auth/me", "GET /auth/session-status"},
        tok \in Tokens, ip \in IPs :
       Request(RouteNamed(name), tok, ip, TRUE, NoBody)
  \/ \E id \in 1 .. MaxUsers : DeactivateUser(id)
  \/ \E id \in 1 .. MaxUsers : ActivateUser(id)
  \/ Sweep("auth")

SpecAccess == InitEnv /\ [][NextAccess]_vars

\* ------------------------------------------------------------------ claims
\* The step just taken was a request validateSession let through.
Accepted == lastReq.kind = "request" /\ lastReq.code = "OK"

\* The four conditions of validity held for the token's session when the
\* request arrived.
FourConditions ==
  /\ lastReq.found /\ lastReq.active
  /\ lastReq.idleOk /\ lastReq.absOk /\ lastReq.ipOk

\* C1: whenever validateSession accepts a request, the token's session was
\* in the registry and active, idle for no longer than the idle timeout, no
\* older than the absolute timeout, and bound to the request's address.
C1_AcceptedImpliesValid == Accepted => FourConditions

\* A request accepted for a session that an earlier request had refreshed,
\* after time has passed.
C1_Witness ==
  Accepted /\ lastReq.wasValidated /\ clock > 0 /\ FourConditions

\* C2: a request carrying the token createSession returned is accepted
\* exactly when the session is active, within both timeouts and at its
\* bound address, hence for as long as it is refreshed, up to the absolute
\* timeout.
C2_ValidIffFourConditions ==
  (lastReq.kind = "request" /\ lastReq.genuine)
    => (lastReq.code = "OK" <=> FourConditions)

\* C3: the first request for a validated session that has been idle for
\* longer than the idle timeout is rejected with SESSION_TIMEOUT and leaves
\* the registry without the session.
C3_IdleRejectedAndRemoved ==
  (lastReq.kind = "request" /\ lastReq.genuine /\ lastReq.wasValidated
   /\ lastReq.found /\ ~lastReq.idleOk)
    => /\ lastReq.code = "SESSION_TIMEOUT"
       /\ lastReq.sid \notin DOMAIN activeSessions["auth"]

\* C4: while the lock-expiry set by five consecutive wrong secrets is
\* ahead, every login begun for the account is answered 'Account
\* temporarily locked', whatever secret it carries.
C4_LockedUntilExpiry ==
  (lastReq.kind \in {"login", "loginStart"} /\ lastReq.dueAtStart)
    => /\ lastReq.kind = "login"
       /\ lastReq.error = "Account temporarily locked"

\* C5: a login succeeds only for an account that exists, is active and
\* unlocked when the success is returned, with the matching secret, and it
\* leaves the failure counter at 0 and the lock unset.
C5_SuccessOnlyUnlocked ==
  (lastReq.kind = "login" /\ lastReq.status = 200)
    => /\ lastReq.existed /\ lastReq.matched
       /\ lastReq.activeNow /\ ~lastReq.lockedNow
       /\ users[lastReq.user].loginAttempts = 0
       /\ users[lastReq.user].lockedUntil = Null

\* C6: on every guarded route the handler runs only for a request
\* validateSession accepted; a rejected request is answered 401 without the
\* handler; an accepted one carries the session's id, user id, email and
\* display name.
C6_HandlerOnlyAfterValidation ==
  lastReq.kind = "request" =>
    /\ lastReq.handlerRan => lastReq.code = "OK"
    /\ lastReq.code # "OK" => (lastReq.status = 401 /\ ~lastReq.handlerRan)
    /\ lastReq.code = "OK" =>
         /\ lastReq.sid \in DOMAIN issued
         /\ lastReq.session.id = lastReq.sid
         /\ lastReq.session.userId = issued[lastReq.sid].userId
         /\ lastReq.session.userEmail = issued[lastReq.sid].email
         /\ lastReq.session.userDisplayName =
              users[issued[lastReq.sid].userId].username

\* A handler that ran with the session of the request attached.
C6_Witness ==
  /\ Accepted /\ lastReq.handlerRan
  /\ lastReq.session.id = lastReq.sid /\ lastReq.session.userEmail # ""

\* C7: an admin route runs its handler only for an accepted request of a
\* user whose record has role admin; any other accepted request is answered
\* 403 with no handler, no change to the user store, and the audit entry of
\* the unauthorized attempt.
C7_AdminOnly ==
  (lastReq.kind = "request" /\ lastReq.adminRoute) =>
    /\ lastReq.handlerRan => (lastReq.code = "OK" /\ lastReq.isAdmin)
    /\ (lastReq.code = "OK" /\ ~lastReq.isAdmin) =>
         /\ lastReq.status = 403
         /\ ~lastReq.handlerRan
         /\ ~lastReq.usersChanged
         /\ lastReq.audit = <<"ACCESS/UNAUTHORIZED_ADMIN_ACCESS/DENIED">>

\* A signed-in user without the admin role turned away from an admin route.
C7_Witness ==
  /\ Accepted /\ lastReq.adminRoute /\ ~lastReq.isAdmin
  /\ lastReq.status = 403

\* C8: a terminated session is in no registry, and no request presenting
\* its token is accepted afterwards.
C8_TerminatedNeverAccepted ==
  /\ \A s \in terminated : \A i \in Insts : s \notin DOMAIN activeSessions[i]
  /\ (lastReq.kind = "request" /\ lastReq.wasTerminated) => ~Accepted

\* The token of a terminated session presented again to the manager that
\* issued it.
C8_Witness ==
  /\ lastReq.kind = "request" /\ lastReq.genuine /\ lastReq.wasTerminated
  /\ lastReq.code = "SESSION_NOT_FOUND"

\* C9: terminateSession called again for a terminated session changes no
\* registry and logs nothing, so no session has more than one
\* SESSION_TERMINATED event.
C9_TerminateIdempotent ==
  /\ \A s \in SessionIds : termEvents[s] <= 1
  /\ (lastReq.kind = "terminateSession" /\ lastReq.wasTerminated)
       => (~lastReq.regChanged /\ lastReq.audit = <<>>)

\* terminateSession called for a session already terminated.
C9_Witness ==
  /\ lastReq.kind = "terminateSession" /\ lastReq.wasTerminated
  /\ termEvents[lastReq.sid] = 1

\* C10: a login refused for a wrong secret, a locked account or a disabled
\* account is answered as a login for an unknown username is: status 401
\* with the error 'Invalid credentials'.  (A login that fails because the
\* user file cannot be written is left aside.)
C10_NonEnumerating ==
  (lastReq.kind = "login" /\ lastReq.status \notin {200, 400}
   /\ lastReq.error # "Authentication failed")
    => (lastReq.status = 401 /\ lastReq.error = "Invalid credentials")

\* C11: every request the gate rejects gets the same response body,
\* whichever check failed: the body sent for a missing token.
C11_UniformRejection ==
  (lastReq.kind = "request" /\ lastReq.code \notin {"OK", "SKIPPED"})
    => lastReq.response = handleInvalidSession("NO_TOKEN")

\* C12: no two user records share a username, and no two share an email.
C12_UniqueUsernameAndEmail ==
  \A a, b \in DOMAIN users :
    a # b => /\ users[a].username # users[b].username
             /\ users[a].email # users[b].email

detailKeys == {"query", "body", "changes", "details", "username"}

\* C14: no entry written to the audit log holds, anywhere in its detail
\* payload, a value in which scanForPHI finds a sensitive-data pattern.
C14_NoSensitiveValueInAudit ==
  \A n \in DOMAIN auditLog :
    \A p \in DOMAIN auditLog[n].fields :
      p[1] \in detailKeys => ~scanForPHI(auditLog[n].fields[p]).hasPHI

\* C15: the digest recomputed from an entry's stored fields is the stored
\* digest, and it is a different one once any stored field, nested ones
\* included, has been changed.
C15_DigestDetectsChange ==
  \A n \in DOMAIN auditLog :
    LET e == auditLog[n]
    IN  /\ calculateIntegrityHash(e.fields) = e.integrity
        /\ \A p \in DOMAIN e.fields :
             calculateIntegrityHash(
               [e.fields EXCEPT ![p] = Opaque("tampered")]) # e.integrity

\* C16: when the scanner middleware finds a match in the body or the query
\* of a request, then in blocking mode the request is answered 400 and its
\* handler is not invoked, and in redact-only mode the handler is invoked,
\* every matched value it receives in body and query is replaced by its
\* mask, and the request is flagged as sanitized.
C16_BlockOrRedact ==
  (/\ phiReq.phase = "done" /\ phiReq.mounted
   /\ scanObjectForPHI(phiReq.rawBody) \/ scanObjectForPHI(phiReq.rawQuery))
  => IF phiReq.blockOnDetection
     THEN phiReq.status = 400 /\ ~phiReq.handlerRan
     ELSE /\ phiReq.handlerRan
          /\ phiReq.body = sanitizeObject(phiReq.rawBody)
          /\ phiReq.query = sanitizeObject(phiReq.rawQuery)
          /\ phiReq.phiDetected

\* C17: in either mode, scanForPHI finds nothing in the text sanitizeText
\* returns, and sanitizeText returns that text unchanged when given it.
C17_RedactionCompleteAndIdempotent ==
  text.done => /\ text.findings = <<>>
               /\ text.again = text.sanitized

\* A text with findings of two types has been sanitized with the fixed
\* redaction token.
C17_Witness ==
  /\ text.done /\ ~text.preserveLength
  /\ text.sanitized # text.input
  /\ \E a, b \in DOMAIN scanForPHI(text.input).findings :
       scanForPHI(text.input).findings[a][1]
         # scanForPHI(text.input).findings[b][1]

\* C18: changePassword succeeds exactly when the user exists, the current
\* secret given matches the stored one and the new secret has at least 8
\* characters with a lowercase letter, an uppercase letter, a digit and a
\* symbol (a character that is neither letter nor digit); on success the new
\* secret is stored and the must-change flag is cleared.
C18_SucceedsExactlyWhenPolicyMet ==
  lastReq.kind = "changePassword" =>
    LET new == Spelling(lastReq.secret)
        symbol == \E k \in DOMAIN new :
                    new[k] \notin LowerCase \cup UpperCase \cup Digits
    IN  /\ lastReq.error = ""
             <=> /\ lastReq.existed /\ lastReq.matched
                 /\ Len(new) >= 8
                 /\ \E k \in DOMAIN new : new[k] \in LowerCase
                 /\ \E k \in DOMAIN new : new[k] \in UpperCase
                 /\ \E k \in DOMAIN new : new[k] \in Digits
                 /\ symbol
        /\ lastReq.error = ""
             => /\ users[lastReq.user].password = hashPassword(lastReq.secret)
                /\ ~users[lastReq.user].mustChangePassword

\* C18 as amended: changePassword succeeds exactly when the user exists, the
\* current secret given matches the stored one, the new secret has at least
\* 8 characters with a lowercase letter, an uppercase letter, a digit and
\* one of !@#$%^&*, and the users file is written; on success the new secret
\* is stored and the must-change flag is cleared.
C18_SucceedsExactlyWhenSaved ==
  lastReq.kind = "changePassword" =>
    /\ lastReq.error = ""
         <=> /\ lastReq.existed /\ lastReq.matched
             /\ SecretShape(lastReq.secret).len >= 8
             /\ SecretShape(lastReq.secret).lower
             /\ SecretShape(lastReq.secret).upper
             /\ SecretShape(lastReq.secret).digit
             /\ SecretShape(lastReq.secret).special
             /\ lastReq.saved
    /\ lastReq.error = ""
         => /\ users[lastReq.user].password = hashPassword(lastReq.secret)
            /\ ~users[lastReq.user].mustChangePassword

\* The default administrator, who must change the secret, has replaced it.
C18_Witness ==
  /\ lastReq.kind = "changePassword" /\ lastReq.error = ""
  /\ lastReq.user = 1 /\ lastReq.secret = BobSecret
  /\ users[1].password = hashPassword(BobSecret)
  /\ users[1].password # DefaultAdmin.password
  /\ DefaultAdmin.mustChangePassword /\ ~users[1].mustChangePassword

\* C19: an update-profile request whose body holds a field other than email
\* and preferences is answered with an error and changes no user record.
C19_UnknownFieldRejected ==
  /\ lastReq.kind = "request"
  /\ \E key \in DOMAIN lastReq.updates : key \notin {"email", "preferences"}
  => /\ lastReq.status >= 400
     /\ ~lastReq.usersChanged

\* C20: the session count the health check reports equals the number of
\* sessions that successful logins have created and that have not been
\* terminated since.
C20_HealthCountsLiveSessions ==
  lastReq.kind = "health" =>
    lastReq.sessions = Cardinality(DOMAIN issued \ terminated)

\* C21: validateComment accepts every comment that holds a character other
\* than whitespace and has at most 2000 characters as received, and rejects
\* every comment of 2001 characters or more as received; the client-side
\* check of addComment accepts and rejects the same comments.
C21_CommentLengthBoundary ==
  /\ comment.server # "none"
       => /\ Len(trim(comment.input)) > 0
             /\ Len(comment.input) <= maxCommentLength
               => comment.server = "ok"
          /\ Len(comment.input) > maxCommentLength => comment.server # "ok"
  /\ comment.server # "none" /\ comment.client # "none"
       => (comment.server = "ok" <=> comment.client = "ok")

\* C22: validateSession reports the first check that fails, in the order
\* token present, token signature and expiry, session found and active, idle
\* timeout, absolute timeout, address; the session is removed exactly when
\* that check is one of the last three, and the registry is left as it was
\* when it is one of the first three.
C22_FirstFailingCheck ==
  lastReq.kind = "request" /\ lastReq.code # "SKIPPED" =>
    /\ lastReq.code \in
         IF ~lastReq.present THEN {"NO_TOKEN"}
         ELSE IF ~lastReq.verified THEN {"INVALID_TOKEN", "TOKEN_EXPIRED"}
         ELSE IF ~(lastReq.found /\ lastReq.active) THEN {"SESSION_NOT_FOUND"}
         ELSE IF ~lastReq.idleOk THEN {"SESSION_TIMEOUT"}
         ELSE IF ~lastReq.absOk THEN {"SESSION_EXPIRED"}
         ELSE IF ~lastReq.ipOk THEN {"SESSION_INVALID"}
         ELSE {"OK"}
    /\ lastReq.code \in {"SESSION_TIMEOUT", "SESSION_EXPIRED",
                         "SESSION_INVALID"}
         => /\ lastReq.sid \notin DOMAIN activeSessions[lastReq.inst]
            /\ lastReq.sid \in terminated
    /\ lastReq.code \in {"NO_TOKEN", "INVALID_TOKEN", "TOKEN_EXPIRED",
                         "SESSION_NOT_FOUND"}
         => ~lastReq.regChanged

\* A request with a valid token of a live session came from another address:
\* it was answered SESSION_INVALID and the session is gone.
C22_Witness ==
  /\ lastReq.kind = "request" /\ lastReq.code = "SESSION_INVALID"
  /\ lastReq.present /\ lastReq.verified /\ lastReq.found /\ lastReq.active
  /\ lastReq.idleOk /\ lastReq.absOk /\ ~lastReq.ipOk
  /\ lastReq.sid \notin DOMAIN activeSessions[lastReq.inst]

C24_SweepRemovesExactlyExpired ==
  [][lastReq'.kind = "sweep" =>
       LET i == lastReq'.inst
           before == activeSessions[i]
           after == activeSessions'[i]
       IN  /\ DOMAIN after =
                {s \in DOMAIN before :
                   /\ clock - before[s].lastActivity <= sessionTimeout
                   /\ clock - before[s].createdAt <= maxSessionTimeout}
           /\ \A s \in DOMAIN after :
                /\ after[s].lastActivity = before[s].lastActivity
                /\ after[s].createdAt = before[s].createdAt
                /\ after[s] = before[s]
           /\ \A j \in Insts \ {i} : activeSessions'[j] = activeSessions[j]]_vars

\* A sweep has just removed a session of the registry login fills.
C24_Witness ==
  /\ lastReq.kind = "sweep"
  /\ lastReq.inst = "auth"
  /\ lastReq.regChanged
  /\ terminated # {}

C26_FailedAppendFallsBack ==
  [][(lastReq'.written /\ ~lastReq.written) =>
       /\ ~lastReq'.rejected
       /\ lastReq'.filed \o lastReq'.fallback = lastReq.entries
       /\ ~lastReq'.appendOk => lastReq'.fallback = lastReq.entries
       /\ lastReq'.appendOk => lastReq'.filed = lastReq.entries
       /\ lastReq' = [lastReq EXCEPT !.written = TRUE,
                                     !.appendOk = lastReq'.appendOk,
                                     !.filed = lastReq'.filed,
                                     !.fallback = lastReq'.fallback]
       /\ <<clock, users, activeSessions, auth>>' =
            <<clock, users, activeSessions, auth>>]_vars

\* The append of the entry of a successful login failed and the entry was
\* printed instead; the login's answer stands.
C26_Witness ==
  /\ lastReq.kind = "login"
  /\ lastReq.status = 200
  /\ lastReq.written
  /\ ~lastReq.appendOk
  /\ lastReq.filed = <<>>
  /\ lastReq.fallback = lastReq.entries
  /\ lastReq.entries # <<>>

\* C27: a request to a ticket route that presents a token a login returned,
\* from the address of that login (loginAddr), while the session is registered and
\* active where the login created it, within the idle and the absolute
\* timeout, and while the token itself verifies, is accepted.
C27_LoginTokenOpensTicketRoutes ==
  /\ lastReq.kind = "request"
  /\ lastReq.inst = "jira"
  /\ lastReq.issuedTok
  /\ lastReq.sid \in DOMAIN activeSessions["auth"]
  /\ LET s == activeSessions["auth"][lastReq.sid]
     IN  /\ s.isActive
         /\ lastReq.loginAddr
         /\ clock - s.lastActivity <= sessionTimeout
         /\ clock - s.createdAt <= maxSessionTimeout
  /\ jwtVerify(issued[lastReq.sid], jwtSecret["auth"], clock) = "ok"
  => lastReq.code = "OK"

\* C28: no verdict of the secret comparison is acted on, as a recorded
\* failure or as a success, for an account that is locked at that moment:
\* once the fifth wrong secret has locked the account, the logins already
\* in flight and the later ones are refused unverified until the lock runs
\* out, so no sixth guess is evaluated within the window.
C28_LockoutAtomic ==
  (lastReq.kind = "login" /\ lastReq.usersChanged) => ~lastReq.lockedNow

\* C29: a request passes validateSession only for a session whose user is
\* stored and active, so a deactivated user's requests are refused on
\* sessions old and new; and a login succeeds only for an active account.
C29_DeactivationEndsAccess ==
  /\ (lastReq.kind = "request" /\ lastReq.code = "OK")
       => /\ lastReq.session.userId \in DOMAIN users
          /\ users[lastReq.session.userId].isActive
  /\ (lastReq.kind = "login" /\ lastReq.status = 200)
       => users[lastReq.user].isActive

\* C30: whenever changePassword returns a failure, for an unknown user, a
\* wrong current secret, a new secret below the policy or a users file that
\* could not be written, the user store is exactly what it was before the
\* call: the stored secret and the must-change flag are unchanged.
C30_FailureChangesNothing ==
  (lastReq.kind = "changePassword" /\ lastReq.error # "")
    => ~lastReq.usersChanged

=========================================================================
